---- MODULE Spec2Model ----
(***************************************************************************)
(* Stock reconciliation of the event-rental back office: the REST handlers *)
(* of server/routes/events.ts, server/routes/invoices.ts (and its B2B      *)
(* revision) and server/routes/stock.ts, run as concurrent requests        *)
(* against one MongoDB database with multi-document transactions.          *)
(*                                                                         *)
(* Quantities are integers; money is counted in thousandths of the        *)
(* currency unit, so that the handlers' Number(x.toFixed(2)) has a third   *)
(* decimal to round away.                                                  *)
(***************************************************************************)
EXTENDS Integers, Sequences, FiniteSets, TLC

\* ---------------------------------------------------------------- bounds
MaxReq == 2
MaxItems == 2
MaxQty == 2
InitStock == 3
InitLotQty == 1

\* ------------------------------------------------------ program constants
maxRetries == 3
BackoffUnit == 100

\* the documents of the collections and the workers serving requests
Products == {1, 2}
EventIds == {1, 2}
InvoiceIds == {1, 2}
Lots == {1, 2}
Procs == {1, 2}
\* identifiers that match no document
UnknownProduct == Cardinality(Products) + 1
UnknownEvent == Cardinality(EventIds) + 1
UnknownInvoice == Cardinality(InvoiceIds) + 1
NoDetail == 0 - 1

\* ------------------------------------------------------------- state
VARIABLES
  revision, \* which revision of the invoice routes is deployed
  db,       \* the committed database: one field per collection
  req,      \* per worker: the request being served (or the last one served)
  pc,       \* per worker: position in the handler
  attempt,  \* per worker: the retry loop's counter
  view,     \* per worker: the open transaction's snapshot plus its own writes
  wset,     \* per worker: documents written by the open transaction
  stale,    \* per worker: documents committed by others since the snapshot
  loc,      \* per worker: the handler's local variables
  resp,     \* per worker: the response sent for req
  waited,   \* per worker: the backoff delays slept during req
  ncommit,  \* per worker: transactions committed while serving req
  log,      \* per worker: the errors the catch block logged while serving req
  nreq      \* requests accepted so far

vars == <<revision, db, req, pc, attempt, view, wset, stale, loc, resp, waited, ncommit, log, nreq>>

\* ------------------------------------------------------------ helpers
RECURSIVE SumSeq(_)
SumSeq(s) == IF s = <<>> THEN 0 ELSE Head(s) + SumSeq(Tail(s))

Max(a, b) == IF a >= b THEN a ELSE b
Min(a, b) == IF a <= b THEN a ELSE b

MapSeq(s, F(_)) == [k \in 1..Len(s) |-> F(s[k])]

\* document identifiers, the granularity of MongoDB's write conflicts
DocProduct(p) == <<"Product", p>>
DocEvent(e) == <<"Event", e>>
DocInvoice(n) == <<"Invoice", n>>
DocLot(l) == <<"B2BStock", l>>
DocIssue(p) == <<"IssueRegister", p>>

NoReq == [h |-> "none"]
NoBody == <<>>
NoResp == [status |-> 0, error |-> "", productId |-> 0, shortage |-> NoDetail, body |-> NoBody]
NoLoc == [i |-> 0]
NoView == [open |-> FALSE]

\* the client of the event has a lead of priority 'cold'
\* (variant: the guard is absent)
coldLeadNever(id) == FALSE
coldLead(id) == db.Lead[id] = "cold"

\* Event.findById(id) finds nothing
EventMissing(id) == id \notin EventIds \/ db.Event[id].status = "none"

Response(st, err) == [NoResp EXCEPT !.status = st, !.error = err]
ResponseFor(st, err, p, sh) ==
  [NoResp EXCEPT !.status = st, !.error = err, !.productId = p, !.shortage = sh]
ResponseBody(st, b) == [NoResp EXCEPT !.status = st, !.body = b]

\* an optional field of a payload: <<>> when absent, <<x>> when supplied
\* variant: the supplied value is ignored
CoalesceDefault(opt, d) == d
Coalesce(opt, d) == IF opt = <<>> THEN d ELSE opt[1]

\* Money is counted in thousandths of the currency unit, so that an amount
\* can carry a third decimal. Number(x.toFixed(2)) keeps two decimals,
\* rounding to the nearest hundredth. An amount whose third decimal is
\* exactly 5 falls on the side its binary representation lies; the requests
\* below carry no such amount.
\* variant: the amount is kept as computed
toFixedNone(x) == x
toFixed2(x) == ((x + 5) \div 10) * 10

\* ----------------------------------------------- MongoDB transactions
\* session.startTransaction() followed by the first read: the snapshot the
\* transaction reads from, with nothing pending.
Snapshot ==
  [open |-> TRUE,
   Product |-> db.Product,
   Event |-> db.Event,
   Invoice |-> db.Invoice,
   B2BStock |-> db.B2BStock,
   IssueRegister |-> db.IssueRegister,
   StockLedgerDel |-> {},
   StockLedgerAdd |-> <<>>,
   IssueTxnAdd |-> <<>>,
   AuditLogAdd |-> <<>>]

\* A write inside a transaction fails with WriteConflict when the document
\* was committed by someone else after the snapshot, or is held by another
\* open transaction.
\* variant: a database that detects no conflict
WriteConflictNever(r, doc) == FALSE
WriteConflict(r, doc) ==
  \/ doc \in stale[r]
  \/ \E o \in Procs \ {r} : doc \in wset[o]

\* StockLedger.deleteMany({productId, refType: 'Invoice', refId})
Deleted(entry, filters) ==
  \E f \in filters : /\ entry.productId = f.productId
                     /\ entry.refType = "Invoice"
                     /\ entry.refId = f.refId

\* session.commitTransaction(): the documents written replace the committed
\* ones, the inserts are appended.
Committed(v, docs) ==
  [db EXCEPT
     !.Product = [p \in Products |->
                    IF DocProduct(p) \in docs THEN v.Product[p] ELSE db.Product[p]],
     !.Event = [e \in EventIds |->
                    IF DocEvent(e) \in docs THEN v.Event[e] ELSE db.Event[e]],
     !.Invoice = [n \in InvoiceIds |->
                    IF DocInvoice(n) \in docs THEN v.Invoice[n] ELSE db.Invoice[n]],
     !.B2BStock = [l \in Lots |->
                    IF DocLot(l) \in docs THEN v.B2BStock[l] ELSE db.B2BStock[l]],
     !.IssueRegister = [p \in Products |->
                    IF DocIssue(p) \in docs THEN v.IssueRegister[p] ELSE db.IssueRegister[p]],
     !.StockLedger = SelectSeq(db.StockLedger, LAMBDA x : ~Deleted(x, v.StockLedgerDel))
                       \o v.StockLedgerAdd,
     !.IssueTxn = db.IssueTxn \o v.IssueTxnAdd,
     !.AuditLog = db.AuditLog \o v.AuditLogAdd]

\* every other open transaction now has a stale snapshot of docs
StaleAfter(r, docs) ==
  [o \in Procs |-> IF o # r /\ view[o].open THEN stale[o] \cup docs ELSE stale[o]]

\* session.abortTransaction(); session.endSession(); return res.status(..)
Reject(r, response) ==
  /\ resp' = [resp EXCEPT ![r] = response]
  /\ pc' = [pc EXCEPT ![r] = "idle"]
  /\ view' = [view EXCEPT ![r] = NoView]
  /\ wset' = [wset EXCEPT ![r] = {}]
  /\ stale' = [stale EXCEPT ![r] = {}]
  /\ loc' = [loc EXCEPT ![r] = NoLoc]
  /\ UNCHANGED <<db, attempt, waited, ncommit, log>>

\* error.errorLabelSet?.has("TransientTransactionError") ||
\* error.codeName === "WriteConflict"
\* variant: every error is taken for a transient one
isTransientAny(kind) == TRUE
isTransient(kind) == kind = "transient"

\* if (isTransient && attempt < maxRetries)
\* variant: the comparison with maxRetries is off by one
shouldRetryOnceMore(kind, att) == isTransient(kind) /\ att <= maxRetries
shouldRetry(kind, att) == isTransient(kind) /\ att < maxRetries

\* setTimeout(r, 100 * attempt)
\* variant: the same delay before every retry
backoffFixed(att) == BackoffUnit
backoff(att) == BackoffUnit * att

\* the catch block of the retry loop
Catch(r, kind) ==
  /\ view' = [view EXCEPT ![r] = NoView]
  /\ wset' = [wset EXCEPT ![r] = {}]
  /\ stale' = [stale EXCEPT ![r] = {}]
  /\ loc' = [loc EXCEPT ![r] = NoLoc]
  /\ IF shouldRetry(kind, attempt[r])
       THEN /\ pc' = [pc EXCEPT ![r] = "wait"]
            /\ waited' = [waited EXCEPT ![r] = Append(@, backoff(attempt[r]))]
            /\ resp' = resp
       ELSE /\ pc' = [pc EXCEPT ![r] = "idle"]
            /\ resp' = [resp EXCEPT ![r] = Response(500, "Internal server error")]
            /\ waited' = waited
  /\ log' = [log EXCEPT ![r] = Append(@, [attempt |-> attempt[r], error |-> kind])]
  /\ UNCHANGED <<db, attempt, ncommit>>

\* productSchema: stockQty has min 0, checked by product.save()
validStock(q) == q >= 0

\* ------------------------------------------------------- dispatchEvent
SelectionLine(p, qty, rate) ==
  [productId |-> p, qtyToSend |-> qty, rate |-> rate, amount |-> toFixed2(qty * rate),
   returnedQty |-> 0, completed |-> FALSE]

\* the request is accepted and the retry loop initialised
dispatchEvent(r, id, items, dryRun) ==
  /\ pc[r] = "idle"
  /\ nreq < MaxReq
  /\ nreq' = nreq + 1
  /\ req' = [req EXCEPT ![r] =
               [h |-> "dispatchEvent", id |-> id, items |-> items, dryRun |-> dryRun]]
  /\ attempt' = [attempt EXCEPT ![r] = 1]
  /\ pc' = [pc EXCEPT ![r] = "attempt"]
  /\ resp' = [resp EXCEPT ![r] = NoResp]
  /\ waited' = [waited EXCEPT ![r] = <<>>]
  /\ ncommit' = [ncommit EXCEPT ![r] = 0]
  /\ log' = [log EXCEPT ![r] = <<>>]
  /\ UNCHANGED <<revision, db, view, wset, stale, loc>>

\* one attempt up to the item loop: transaction start, payload and event
\* checks, cold lead guard
dispatchAttempt(r) ==
  /\ pc[r] = "attempt"
  /\ req[r].h = "dispatchEvent"
  /\ UNCHANGED <<revision, req, nreq>>
  /\ IF Len(req[r].items) = 0
       THEN Reject(r, Response(400, "items are required"))
     ELSE IF EventMissing(req[r].id)
       THEN Reject(r, Response(404, "Event not found"))
     ELSE IF coldLead(req[r].id)
       THEN Reject(r, Response(403, "COLD_LEAD"))
     ELSE /\ view' = [view EXCEPT ![r] = Snapshot]
          /\ pc' = [pc EXCEPT ![r] = "dispatchItem"]
          /\ loc' = [loc EXCEPT ![r] = [i |-> 1, total |-> 0, sanitized |-> <<>>]]
          /\ UNCHANGED <<db, attempt, wset, stale, resp, waited, ncommit, log>>

\* one iteration of the item loop
dispatchItem(r) ==
  /\ pc[r] = "dispatchItem"
  /\ UNCHANGED <<revision, req, nreq>>
  /\ LET it == req[r].items[loc[r].i]
         pid == it.productId
         qty == it.qty
         rate == it.rate
     IN IF pid = 0 \/ qty <= 0
          THEN Reject(r, Response(400, "Invalid item payload"))
        ELSE IF pid \notin Products
          THEN Reject(r, ResponseFor(404, "Product not found", pid, NoDetail))
        ELSE IF view[r].Product[pid].stockQty < qty
          THEN Reject(r, ResponseFor(400, "Insufficient stock", pid, NoDetail))
        ELSE IF ~req[r].dryRun /\ ~validStock(view[r].Product[pid].stockQty - qty)
          THEN Catch(r, "other")
        ELSE IF ~req[r].dryRun /\ WriteConflict(r, DocProduct(pid))
          THEN Catch(r, "transient")
        ELSE /\ view' = [view EXCEPT ![r].Product[pid].stockQty =
                           IF req[r].dryRun THEN @ ELSE @ - qty]
             /\ wset' = [wset EXCEPT ![r] =
                           IF req[r].dryRun THEN @ ELSE @ \cup {DocProduct(pid)}]
             /\ loc' = [loc EXCEPT ![r].i = @ + 1,
                                   ![r].total = @ + toFixed2(qty * rate),
                                   ![r].sanitized = Append(@, SelectionLine(pid, qty, rate))]
             /\ pc' = [pc EXCEPT ![r] =
                         IF loc[r].i = Len(req[r].items) THEN "dispatchSave" ELSE "dispatchItem"]
             /\ UNCHANGED <<db, attempt, stale, resp, waited, ncommit, log>>

\* the record goes to dispatchDrafts on a dry run, to dispatches otherwise
\* (variant: the dry run is not told apart)
pushDispatchAlways(ev, rec, dryRun) ==
  [ev EXCEPT !.dispatches = Append(@, rec), !.status = "dispatched"]
pushDispatch(ev, rec, dryRun) ==
  IF dryRun
    THEN [ev EXCEPT !.dispatchDrafts = Append(@, [items |-> rec.items, total |-> rec.total,
                                                  note |-> "reserve"]),
                    !.status = "reserved"]
    ELSE [ev EXCEPT !.dispatches = Append(@, rec), !.status = "dispatched"]

\* the record is pushed on the event, the audit entry written and the
\* transaction committed
dispatchSave(r) ==
  /\ pc[r] = "dispatchSave"
  /\ UNCHANGED <<revision, req, nreq>>
  /\ LET e == req[r].id
         rec == [items |-> loc[r].sanitized, total |-> loc[r].total]
         ev == pushDispatch(view[r].Event[e], rec, req[r].dryRun)
         audit == [action |-> IF req[r].dryRun THEN "reserve" ELSE "dispatch",
                   entity |-> "Event", entityId |-> e, total |-> loc[r].total]
         v == [view[r] EXCEPT !.Event[e] = ev, !.AuditLogAdd = Append(@, audit)]
         docs == wset[r] \cup {DocEvent(e)}
     IN IF WriteConflict(r, DocEvent(e))
          THEN Catch(r, "transient")
          ELSE /\ db' = Committed(v, docs)
               /\ stale' = [StaleAfter(r, docs) EXCEPT ![r] = {}]
               /\ wset' = [wset EXCEPT ![r] = {}]
               /\ view' = [view EXCEPT ![r] = NoView]
               /\ ncommit' = [ncommit EXCEPT ![r] = @ + 1]
               /\ pc' = [pc EXCEPT ![r] = "dispatchRead"]
               /\ UNCHANGED <<attempt, loc, resp, waited, log>>

\* the populated event is read back and sent
dispatchRead(r) ==
  /\ pc[r] = "dispatchRead"
  /\ resp' = [resp EXCEPT ![r] = Response(200, "")]
  /\ pc' = [pc EXCEPT ![r] = "idle"]
  /\ loc' = [loc EXCEPT ![r] = NoLoc]
  /\ UNCHANGED <<revision, db, req, attempt, view, wset, stale, waited, ncommit, log, nreq>>

\* -------------------------------------------------------- returnEvent
returnEvent(r, id, items) ==
  /\ pc[r] = "idle"
  /\ nreq < MaxReq
  /\ nreq' = nreq + 1
  /\ req' = [req EXCEPT ![r] = [h |-> "returnEvent", id |-> id, items |-> items]]
  /\ attempt' = [attempt EXCEPT ![r] = 1]
  /\ pc' = [pc EXCEPT ![r] = "attempt"]
  /\ resp' = [resp EXCEPT ![r] = NoResp]
  /\ waited' = [waited EXCEPT ![r] = <<>>]
  /\ ncommit' = [ncommit EXCEPT ![r] = 0]
  /\ log' = [log EXCEPT ![r] = <<>>]
  /\ UNCHANGED <<revision, db, view, wset, stale, loc>>

\* the lines a return is reconciled against: those of the last dispatch,
\* else the selections
lastDispatch(ev) == IF Len(ev.dispatches) > 0 THEN Len(ev.dispatches) ELSE 0
targetItemsOf(ev) ==
  IF lastDispatch(ev) > 0 THEN ev.dispatches[lastDispatch(ev)].items ELSE ev.selections

returnAttempt(r) ==
  /\ pc[r] = "attempt"
  /\ req[r].h = "returnEvent"
  /\ UNCHANGED <<revision, req, nreq>>
  /\ IF EventMissing(req[r].id)
       THEN Reject(r, Response(404, "Event not found"))
     ELSE IF coldLead(req[r].id)
       THEN Reject(r, Response(403, "COLD_LEAD"))
     ELSE /\ view' = [view EXCEPT ![r] = Snapshot]
          /\ pc' = [pc EXCEPT ![r] =
                      IF Len(req[r].items) = 0 THEN "returnSave" ELSE "returnItem"]
          /\ loc' = [loc EXCEPT ![r] =
                       [i |-> 1, sanitized |-> <<>>,
                        targetItems |-> targetItemsOf(db.Event[req[r].id]),
                        totalShortageCost |-> 0, totalDamage |-> 0, totalLate |-> 0]]
          /\ UNCHANGED <<db, attempt, wset, stale, resp, waited, ncommit, log>>

\* index of the first line of the product, 0 when there is none
RECURSIVE FindLine(_, _, _)
FindLine(lines, p, k) ==
  IF k > Len(lines) THEN 0
  ELSE IF lines[k].productId = p THEN k
  ELSE FindLine(lines, p, k + 1)

\* returnedQty and completed of the matching line after a return
MarkReturned(lines, p, returned) ==
  LET k == FindLine(lines, p, 1)
  IN IF k = 0 THEN lines
     ELSE [lines EXCEPT ![k] =
             [@ EXCEPT !.returnedQty = @ + returned,
                       !.completed = (lines[k].returnedQty + returned >= lines[k].qtyToSend)]]

\* product.stockQty = Number(product.stockQty) + returned
\* variant: the returned quantity is not put back
returnedStockKept(stockQty, returned) == stockQty
returnedStock(stockQty, returned) == stockQty + returned

returnItem(r) ==
  /\ pc[r] = "returnItem"
  /\ UNCHANGED <<revision, req, nreq>>
  /\ LET it == req[r].items[loc[r].i]
         e == req[r].id
         pid == it.productId
         expected == it.expected
         returned == it.returned
         shortage == Coalesce(it.shortage, Max(0, expected - returned))
         damageAmount == it.damageAmount
         lateFee == it.lateFee
     IN IF pid = 0 \/ expected < 0 \/ returned < 0 \/ shortage < 0
          THEN Reject(r, Response(400, "Invalid item payload"))
        ELSE IF pid \notin Products
          THEN Reject(r, ResponseFor(404, "Product not found", pid, NoDetail))
        ELSE IF ~validStock(view[r].Product[pid].stockQty + returned)
          THEN Catch(r, "other")
        ELSE IF WriteConflict(r, DocProduct(pid))
          THEN Catch(r, "transient")
        ELSE
          LET product == view[r].Product[pid]
              lossPrice == Coalesce(it.lossPrice, product.buyPrice)
              shortageCost == toFixed2(shortage * lossPrice)
              lineAdjust == toFixed2(shortageCost + damageAmount + lateFee)
              rate == Coalesce(it.rate, product.sellPrice)
              amount == toFixed2(returned * rate)
              line == [productId |-> pid, stockQty |-> returnedStock(product.stockQty, returned),
                       qtyToSend |-> expected, qtyReturned |-> returned,
                       shortage |-> shortage, damageAmount |-> damageAmount,
                       lateFee |-> lateFee, lossPrice |-> lossPrice,
                       shortageCost |-> shortageCost, rate |-> rate,
                       amount |-> amount, lineAdjust |-> lineAdjust]
              ledger == [productId |-> pid, qtyChange |-> returned, reason |-> "return",
                         refType |-> "Return", refId |-> DocEvent(e)]
              txn == [productId |-> pid, qty |-> returned, type |-> "return",
                      ref |-> DocEvent(e)]
          IN /\ view' = [view EXCEPT ![r].Product[pid].stockQty = returnedStock(@, returned),
                                     ![r].StockLedgerAdd = Append(@, ledger),
                                     ![r].IssueTxnAdd = Append(@, txn)]
             /\ wset' = [wset EXCEPT ![r] = @ \cup {DocProduct(pid)}]
             /\ loc' = [loc EXCEPT
                          ![r].i = @ + 1,
                          ![r].sanitized = Append(@, line),
                          ![r].targetItems = MarkReturned(@, pid, returned),
                          ![r].totalShortageCost = @ + shortageCost,
                          ![r].totalDamage = @ + damageAmount,
                          ![r].totalLate = @ + lateFee]
             /\ pc' = [pc EXCEPT ![r] =
                         IF loc[r].i = Len(req[r].items) THEN "returnSave" ELSE "returnItem"]
             /\ UNCHANGED <<db, attempt, stale, resp, waited, ncommit, log>>

\* what selectionSchema keeps of a line stored in event.returns
castSelection(line) ==
  [productId |-> line.productId, qtyToSend |-> line.qtyToSend, rate |-> line.rate,
   amount |-> line.amount, returnedQty |-> 0, completed |-> FALSE]

allCompletedOf(lines) == Len(lines) = 0 \/ \A k \in 1..Len(lines) : lines[k].completed

returnSave(r) ==
  /\ pc[r] = "returnSave"
  /\ UNCHANGED <<revision, req, nreq>>
  /\ LET e == req[r].id
         old == view[r].Event[e]
         l == loc[r]
         ld == lastDispatch(old)
         withLines == IF ld > 0
                        THEN [old EXCEPT !.dispatches[ld].items = l.targetItems]
                        ELSE [old EXCEPT !.selections = l.targetItems]
         rec == [items |-> MapSeq(l.sanitized, castSelection),
                 total |-> toFixed2(l.totalShortageCost + l.totalDamage + l.totalLate),
                 shortages |-> SumSeq(MapSeq(l.sanitized, LAMBDA x : x.shortage)),
                 damages |-> SumSeq(MapSeq(l.sanitized, LAMBDA x : x.damageAmount)),
                 lateFee |-> SumSeq(MapSeq(l.sanitized, LAMBDA x : x.lateFee))]
         allCompleted == allCompletedOf(l.targetItems)
         ev == [withLines EXCEPT !.returns = Append(@, rec),
                                 !.status = IF allCompleted THEN "returned" ELSE @]
         audit == [action |-> "return", entity |-> "Event", entityId |-> e,
                   total |-> rec.total]
         v == [view[r] EXCEPT !.Event[e] = ev, !.AuditLogAdd = Append(@, audit)]
         docs == wset[r] \cup {DocEvent(e)}
     IN IF WriteConflict(r, DocEvent(e))
          THEN Catch(r, "transient")
          ELSE /\ db' = Committed(v, docs)
               /\ stale' = [StaleAfter(r, docs) EXCEPT ![r] = {}]
               /\ wset' = [wset EXCEPT ![r] = {}]
               /\ view' = [view EXCEPT ![r] = NoView]
               /\ ncommit' = [ncommit EXCEPT ![r] = @ + 1]
               /\ pc' = [pc EXCEPT ![r] = "returnRead"]
               /\ loc' = [loc EXCEPT ![r] =
                            [summary |-> [totalShortageCost |-> toFixed2(l.totalShortageCost),
                                          totalDamage |-> toFixed2(l.totalDamage),
                                          totalLate |-> toFixed2(l.totalLate),
                                          lines |-> l.sanitized,
                                          allCompleted |-> allCompleted]]]
               /\ UNCHANGED <<attempt, resp, waited, log>>

returnRead(r) ==
  /\ pc[r] = "returnRead"
  /\ resp' = [resp EXCEPT ![r] = ResponseBody(200, loc[r].summary)]
  /\ pc' = [pc EXCEPT ![r] = "idle"]
  /\ loc' = [loc EXCEPT ![r] = NoLoc]
  /\ UNCHANGED <<revision, db, req, attempt, view, wset, stale, waited, ncommit, log, nreq>>

\* ------------------------------------------- errors and the retry loop
InTry(r) == pc[r] \in {"dispatchItem", "dispatchSave", "dispatchRead",
                       "returnItem", "returnSave", "returnRead"}
AfterCommit(r) == pc[r] \in {"dispatchRead", "returnRead"}

\* a database call of the attempt throws.  Before the commit the error is
\* transient (a network error inside a transaction carries the label
\* TransientTransactionError) or not; the read after the commit runs outside
\* the session, where the driver attaches no transaction label.
throwError(r, kind) ==
  /\ InTry(r)
  /\ AfterCommit(r) => kind = "other"
  /\ Catch(r, kind)
  /\ UNCHANGED <<revision, req, nreq>>

\* the backoff has elapsed: continue with the next attempt
retry(r) ==
  /\ pc[r] = "wait"
  /\ attempt' = [attempt EXCEPT ![r] = @ + 1]
  /\ pc' = [pc EXCEPT ![r] = "attempt"]
  /\ UNCHANGED <<revision, db, req, view, wset, stale, loc, resp, waited, ncommit, log, nreq>>

\* ------------------------------------------------- consumeProductStock
\* the lots of product p, in listed order
RECURSIVE LotsOf(_, _, _)
LotsOf(lots, p, l) ==
  IF l > Cardinality(Lots) THEN <<>>
  ELSE IF lots[l].productId = p THEN <<l>> \o LotsOf(lots, p, l + 1)
  ELSE LotsOf(lots, p, l + 1)

\* take rem from the lots ids, in order
RECURSIVE takeLots(_, _, _, _)
takeLots(lots, ids, rem, usages) ==
  IF ids = <<>> \/ rem = 0 THEN [lots |-> lots, usages |-> usages, rem |-> rem]
  ELSE LET l == Head(ids)
           take == Min(rem, lots[l].quantityAvailable)
       IN takeLots([lots EXCEPT ![l].quantityAvailable = @ - take],
                   Tail(ids), rem - take,
                   IF take > 0 THEN Append(usages, [stockId |-> l, quantity |-> take])
                               ELSE usages)

\* main stock first, then the B2B lots; fails without effect when both
\* together do not cover the quantity
\* variant: the lots are drawn before the main stock
consumeLotsFirst(stockQty, lots, p, quantity) ==
  LET ids == LotsOf(lots, p, 1)
      taken == takeLots(lots, ids, quantity, <<>>)
      fromMain == taken.rem
  IN IF Max(0, stockQty) < fromMain
       THEN [ok |-> FALSE, code |-> "INSUFFICIENT_STOCK",
             details |-> [requested |-> quantity, mainAvailable |-> Max(0, stockQty),
                          b2bAvailable |-> quantity - fromMain]]
       ELSE [ok |-> TRUE, mainUsed |-> fromMain, projectedStock |-> stockQty - fromMain,
             b2bUsages |-> taken.usages, lots |-> taken.lots]
consumeProductStock(stockQty, lots, p, quantity) ==
  LET mainAvailable == Max(0, stockQty)
      ids == LotsOf(lots, p, 1)
      b2bAvailable == SumSeq(MapSeq(ids, LAMBDA l : lots[l].quantityAvailable))
      fromMain == Min(quantity, mainAvailable)
      taken == takeLots(lots, ids, quantity - fromMain, <<>>)
  IN IF mainAvailable + b2bAvailable < quantity
       THEN [ok |-> FALSE, code |-> "INSUFFICIENT_STOCK",
             details |-> [requested |-> quantity, mainAvailable |-> mainAvailable,
                          b2bAvailable |-> b2bAvailable]]
       ELSE [ok |-> TRUE, mainUsed |-> fromMain, projectedStock |-> stockQty - fromMain,
             b2bUsages |-> taken.usages, lots |-> taken.lots]

UsedLots(usages) == {DocLot(usages[k].stockId) : k \in 1..Len(usages)}

\* ------------------------------------------------------ invoice routes
\* what invoiceItemSchema keeps of an item stored on an invoice
castItem(item) == [productId |-> item.productId, qty |-> item.qty]

b2bAllocationsOf(item) ==
  IF "b2bAllocations" \in DOMAIN item THEN item.b2bAllocations ELSE <<>>

InvoiceLedger(pid, change, reason, refType, n) ==
  [productId |-> pid, qtyChange |-> change, reason |-> reason, refType |-> refType,
   refId |-> DocInvoice(n)]

\* IssueRegister.findOneAndUpdate(.., {$inc: {qtyIssued}}, {upsert: true})
issueUpsert(reg, qty) ==
  IF reg.exists THEN [reg EXCEPT !.qtyIssued = @ + qty]
  ELSE [exists |-> TRUE, qtyIssued |-> qty, qtyReturned |-> 0]

Txn0 == [v |-> Snapshot, docs |-> {}, err |-> NoResp]

\* the stock check of a finalization
\* variant: the stock comparison is dropped
insufficientNever(stockQty, qty) == FALSE
insufficient(stockQty, qty) == stockQty < qty

\* one item of a finalization, server/routes/invoices.ts
applyItemPlain(r, item, n, st) ==
  LET pid == item.productId
  IN IF pid \notin Products
       THEN [st EXCEPT !.err = ResponseFor(500, "Product not found", pid, NoDetail)]
     ELSE IF insufficient(st.v.Product[pid].stockQty, item.qty)
       THEN [st EXCEPT !.err = ResponseFor(500, "Insufficient stock", pid,
                                           item.qty - st.v.Product[pid].stockQty)]
     ELSE IF WriteConflict(r, DocProduct(pid)) \/ WriteConflict(r, DocIssue(pid))
       THEN [st EXCEPT !.err = Response(500, "WriteConflict")]
     ELSE [st EXCEPT
             !.v.Product[pid].stockQty = @ - item.qty,
             !.v.StockLedgerAdd = Append(@, InvoiceLedger(pid, -item.qty, "invoice", "Invoice", n)),
             !.v.IssueRegister[pid] = issueUpsert(@, item.qty),
             !.docs = @ \cup {DocProduct(pid), DocIssue(pid)}]

\* one item of a finalization, the revision with the B2B fallback
\* the shortage answered with "Stock Required"
\* variant: the B2B lots are left out of the shortage
shortageOfMain(details) == Max(0, details.requested - details.mainAvailable)
shortageOf(details) ==
  Max(0, details.requested - details.mainAvailable - details.b2bAvailable)

applyItemB2B(r, item, n, st) ==
  LET pid == item.productId
  IN IF pid \notin Products
       THEN [st EXCEPT !.err = ResponseFor(500, "Product not found", pid, NoDetail)]
     ELSE
       LET allocation == consumeProductStock(st.v.Product[pid].stockQty, st.v.B2BStock,
                                             pid, item.qty)
       IN IF ~allocation.ok
            THEN [st EXCEPT !.err =
                    ResponseFor(400, "Stock Required", pid,
                                shortageOf(allocation.details))]
          ELSE IF \E d \in {DocProduct(pid), DocIssue(pid)} \cup UsedLots(allocation.b2bUsages) :
                    WriteConflict(r, d)
            THEN [st EXCEPT !.err = Response(500, "WriteConflict")]
          ELSE [st EXCEPT
                  !.v.Product[pid].stockQty = allocation.projectedStock,
                  !.v.B2BStock = allocation.lots,
                  !.v.StockLedgerAdd = Append(@, InvoiceLedger(pid, -item.qty, "invoice",
                                                               "Invoice", n)),
                  !.v.IssueRegister[pid] = issueUpsert(@, item.qty),
                  !.docs = @ \cup {DocProduct(pid), DocIssue(pid)}
                             \cup UsedLots(allocation.b2bUsages)]

applyItem(r, item, n, st) ==
  IF revision = "part_003" THEN applyItemB2B(r, item, n, st)
  ELSE applyItemPlain(r, item, n, st)

RECURSIVE applyItems(_, _, _, _, _)
applyItems(r, items, k, n, st) ==
  IF k > Len(items) \/ st.err # NoResp THEN st
  ELSE applyItems(r, items, k + 1, n, applyItem(r, items[k], n, st))

\* the B2B allocations recorded on a stored item go back to their lots
RECURSIVE restoreLots(_, _)
restoreLots(lots, allocations) ==
  IF allocations = <<>> THEN lots
  ELSE restoreLots([lots EXCEPT ![Head(allocations).stockId].quantityAvailable =
                      @ + Head(allocations).quantity],
                   Tail(allocations))

\* one item of the reversal of a finalization (final -> draft, delete)
restoreItem(r, item, n, st) ==
  LET pid == item.productId
      allocations == IF revision = "part_003" THEN b2bAllocationsOf(item) ELSE <<>>
  IN IF \E d \in {DocProduct(pid), DocIssue(pid)} \cup UsedLots(allocations) :
          WriteConflict(r, d)
       THEN [st EXCEPT !.err = Response(500, "WriteConflict")]
     ELSE [st EXCEPT
             !.v.Product[pid].stockQty = @ + item.qty,
             !.v.B2BStock = restoreLots(@, allocations),
             !.v.StockLedgerDel = @ \cup {[productId |-> pid, refId |-> DocInvoice(n)]},
             !.v.IssueRegister[pid] = IF @.exists THEN [@ EXCEPT !.qtyIssued = @ - item.qty]
                                      ELSE @,
             !.docs = @ \cup {DocProduct(pid), DocIssue(pid)} \cup UsedLots(allocations)]

RECURSIVE restoreItems(_, _, _, _, _)
restoreItems(r, items, k, n, st) ==
  IF k > Len(items) \/ st.err # NoResp THEN st
  ELSE restoreItems(r, items, k + 1, n, restoreItem(r, items[k], n, st))

\* one item of returnInvoice
returnItemOf(r, item, n, st) ==
  LET pid == item.productId
  IN IF WriteConflict(r, DocProduct(pid)) \/ WriteConflict(r, DocIssue(pid))
       THEN [st EXCEPT !.err = Response(500, "WriteConflict")]
     ELSE [st EXCEPT
             !.v.Product[pid].stockQty = @ + item.qty,
             !.v.StockLedgerAdd = Append(@, InvoiceLedger(pid, item.qty, "return", "Return", n)),
             !.v.IssueRegister[pid] = IF @.exists THEN [@ EXCEPT !.qtyReturned = @ + item.qty]
                                      ELSE @,
             !.docs = @ \cup {DocProduct(pid), DocIssue(pid)}]

RECURSIVE returnItems(_, _, _, _, _)
returnItems(r, items, k, n, st) ==
  IF k > Len(items) \/ st.err # NoResp THEN st
  ELSE returnItems(r, items, k + 1, n, returnItemOf(r, items[k], n, st))

\* a request served in one transaction: accepted, run, answered
Serve(r, rq, st, okStatus) ==
  /\ pc[r] = "idle"
  /\ nreq < MaxReq
  /\ nreq' = nreq + 1
  /\ req' = [req EXCEPT ![r] = rq]
  /\ attempt' = [attempt EXCEPT ![r] = 1]
  /\ waited' = [waited EXCEPT ![r] = <<>>]
  /\ log' = [log EXCEPT ![r] = <<>>]
  /\ IF st.err # NoResp
       THEN /\ resp' = [resp EXCEPT ![r] = st.err]
            /\ ncommit' = [ncommit EXCEPT ![r] = 0]
            /\ UNCHANGED <<db, stale>>
       ELSE /\ resp' = [resp EXCEPT ![r] = Response(okStatus, "")]
            /\ ncommit' = [ncommit EXCEPT ![r] = 1]
            /\ db' = Committed(st.v, st.docs)
            /\ stale' = StaleAfter(r, st.docs)
  /\ UNCHANGED <<revision, pc, view, wset, loc>>

\* the totals of an invoice nobody has paid
Totals0 == [grandTotal |-> 0, paid |-> 0, pending |-> 0]

invoiceValid(value) ==
  /\ Len(value.items) > 0
  /\ \A k \in 1..Len(value.items) : value.items[k].qty >= 0
  /\ value.totals.grandTotal >= 0
  /\ value.totals.paid >= 0
  /\ value.totals.pending >= 0

FreeInvoices == {n \in InvoiceIds : db.Invoice[n].status = "none"}

storeInvoice(st, n, value) ==
  IF st.err # NoResp THEN st
  ELSE [st EXCEPT !.v.Invoice[n] = [status |-> value.status,
                                    items |-> MapSeq(value.items, castItem),
                                    totals |-> value.totals],
                  !.docs = @ \cup {DocInvoice(n)}]

createInvoice(r, value) ==
  /\ FreeInvoices # {}
  /\ LET n == CHOOSE m \in FreeInvoices : \A o \in FreeInvoices : m <= o
         rq == [h |-> "createInvoice", id |-> n, value |-> value]
         st == IF ~invoiceValid(value)
                 THEN [Txn0 EXCEPT !.err = Response(400, "validation")]
               ELSE IF value.status = "final"
                 THEN storeInvoice(applyItems(r, value.items, 1, n, Txn0), n, value)
               ELSE storeInvoice(Txn0, n, value)
     IN Serve(r, rq, st, 201)

updateInvoice(r, n, value) ==
  LET rq == [h |-> "updateInvoice", id |-> n, value |-> value]
      existing == db.Invoice[n]
      st == IF ~invoiceValid(value)
              THEN [Txn0 EXCEPT !.err = Response(400, "validation")]
            ELSE IF n \notin InvoiceIds \/ existing.status = "none"
              THEN [Txn0 EXCEPT !.err = Response(404, "Invoice not found")]
            ELSE IF existing.status = "final" /\ value.status = "draft"
              THEN storeInvoice(restoreItems(r, existing.items, 1, n, Txn0), n, value)
            ELSE IF existing.status = "draft" /\ value.status = "final"
              THEN storeInvoice(applyItems(r, value.items, 1, n, Txn0), n, value)
            ELSE storeInvoice(Txn0, n, value)
  IN Serve(r, rq, st, 200)

deleteInvoice(r, n) ==
  LET rq == [h |-> "deleteInvoice", id |-> n]
      existing == db.Invoice[n]
      restored == IF existing.status = "final"
                    THEN restoreItems(r, existing.items, 1, n, Txn0)
                    ELSE Txn0
      st == IF n \notin InvoiceIds \/ existing.status = "none"
              THEN [Txn0 EXCEPT !.err = Response(404, "Invoice not found")]
            ELSE IF restored.err # NoResp THEN restored
            ELSE [restored EXCEPT !.v.Invoice[n] = [status |-> "none", items |-> <<>>,
                                                      totals |-> Totals0],
                                  !.docs = @ \cup {DocInvoice(n)}]
  IN Serve(r, rq, st, 200)

\* invoice.status !== 'final' refuses the return
\* (variant: the status is not looked at)
canReturnAny(status) == TRUE
canReturn(status) == status = "final"

returnInvoice(r, n) ==
  LET rq == [h |-> "returnInvoice", id |-> n]
      existing == db.Invoice[n]
      returned == returnItems(r, existing.items, 1, n, Txn0)
      st == IF n \notin InvoiceIds \/ existing.status = "none"
              THEN [Txn0 EXCEPT !.err = Response(404, "Invoice not found")]
            ELSE IF ~canReturn(existing.status)
              THEN [Txn0 EXCEPT !.err = Response(400, "Only final invoices can be returned")]
            ELSE IF returned.err # NoResp THEN returned
            ELSE [returned EXCEPT !.v.Invoice[n].status = "returned",
                                  !.docs = @ \cup {DocInvoice(n)}]
  IN Serve(r, rq, st, 200)

\* --------------------------------------------------------- updateStock
Locked(doc) == \E o \in Procs : doc \in wset[o]

\* saveAgreement: the selections and the advance are stored on the event by
\* one findByIdAndUpdate, outside any transaction
saveAgreement(r, id, selections, advance) ==
  /\ pc[r] = "idle"
  /\ nreq < MaxReq
  /\ nreq' = nreq + 1
  /\ req' = [req EXCEPT ![r] = [h |-> "saveAgreement", id |-> id,
                                 selections |-> selections, advance |-> advance]]
  /\ attempt' = [attempt EXCEPT ![r] = 1]
  /\ waited' = [waited EXCEPT ![r] = <<>>]
  /\ ncommit' = [ncommit EXCEPT ![r] = 0]
  /\ log' = [log EXCEPT ![r] = <<>>]
  /\ IF EventMissing(id)
       THEN /\ resp' = [resp EXCEPT ![r] = Response(404, "Event not found")]
            /\ UNCHANGED <<db, stale>>
     ELSE IF coldLead(id)
       THEN /\ resp' = [resp EXCEPT ![r] = Response(403, "COLD_LEAD")]
            /\ UNCHANGED <<db, stale>>
     ELSE /\ ~Locked(DocEvent(id))
          /\ db' = [db EXCEPT !.Event[id].selections =
                                 MapSeq(selections, LAMBDA x :
                                   [productId |-> x.productId, qtyToSend |-> x.qtyToSend,
                                    rate |-> x.rate, amount |-> x.amount,
                                    returnedQty |-> 0, completed |-> FALSE]),
                              !.Event[id].advance = advance]
          /\ stale' = StaleAfter(r, {DocEvent(id)})
          /\ resp' = [resp EXCEPT ![r] = Response(200, "")]
  /\ UNCHANGED <<revision, pc, view, wset, loc>>

\* validation and Product.findById, outside any transaction
updateStock(r, value) ==
  /\ pc[r] = "idle"
  /\ nreq < MaxReq
  /\ nreq' = nreq + 1
  /\ req' = [req EXCEPT ![r] = [h |-> "updateStock", value |-> value]]
  /\ attempt' = [attempt EXCEPT ![r] = 1]
  /\ waited' = [waited EXCEPT ![r] = <<>>]
  /\ ncommit' = [ncommit EXCEPT ![r] = 0]
  /\ log' = [log EXCEPT ![r] = <<>>]
  /\ IF value.quantity < 0
       THEN /\ resp' = [resp EXCEPT ![r] = Response(400, "validation")]
            /\ UNCHANGED <<pc, loc>>
     ELSE IF value.productId \notin Products
       THEN /\ resp' = [resp EXCEPT ![r] = ResponseFor(404, "Product not found",
                                                       value.productId, NoDetail)]
            /\ UNCHANGED <<pc, loc>>
     ELSE /\ resp' = [resp EXCEPT ![r] = NoResp]
          /\ pc' = [pc EXCEPT ![r] = "updateStockApply"]
          /\ loc' = [loc EXCEPT ![r] = [product |-> db.Product[value.productId],
                                        qtyChange |-> 0, allocation |-> NoBody]]
  /\ UNCHANGED <<revision, db, view, wset, stale>>

\* the stock is written: product.save() for 'in' and 'adjustment',
\* consumeProductStock for 'out'
updateStockApply(r) ==
  /\ pc[r] = "updateStockApply"
  /\ LET value == req[r].value
         pid == value.productId
         product == loc[r].product
         result == consumeProductStock(product.stockQty, db.B2BStock, pid, value.quantity)
     IN IF value.type = "out" /\ ~result.ok
          THEN /\ resp' = [resp EXCEPT ![r] =
                             Response(400, "Insufficient stock for this operation")]
               /\ pc' = [pc EXCEPT ![r] = "idle"]
               /\ loc' = [loc EXCEPT ![r] = NoLoc]
               /\ UNCHANGED <<db, stale>>
          ELSE
            LET newQty == CASE value.type = "in" -> product.stockQty + value.quantity
                            [] value.type = "out" -> result.projectedStock
                            [] OTHER -> value.quantity
                qtyChange == CASE value.type = "in" -> value.quantity
                               [] value.type = "out" -> -value.quantity
                               [] OTHER -> value.quantity - product.stockQty
                docs == {DocProduct(pid)} \cup
                          (IF value.type = "out" THEN UsedLots(result.b2bUsages) ELSE {})
            IN /\ \A d \in docs : ~Locked(d)
               /\ db' = [db EXCEPT !.Product[pid].stockQty = newQty,
                                   !.B2BStock = IF value.type = "out" THEN result.lots ELSE @]
               /\ stale' = StaleAfter(r, docs)
               /\ pc' = [pc EXCEPT ![r] = "updateStockLedger"]
               /\ loc' = [loc EXCEPT ![r].qtyChange = qtyChange,
                                     ![r].product.stockQty = newQty,
                                     ![r].allocation =
                                        IF value.type = "out"
                                          THEN [b2bUsages |-> result.b2bUsages,
                                                mainUsed |-> result.mainUsed,
                                                projectedStock |-> result.projectedStock,
                                                reason |-> "manual"]
                                          ELSE NoBody]
               /\ resp' = resp
  /\ UNCHANGED <<revision, req, attempt, view, wset, waited, ncommit, log, nreq>>

\* the ledger entry is saved and the response sent
updateStockLedger(r) ==
  /\ pc[r] = "updateStockLedger"
  /\ LET pid == req[r].value.productId
         entry == [productId |-> pid, qtyChange |-> loc[r].qtyChange, reason |-> "manual",
                   refType |-> "Invoice", refId |-> DocProduct(pid)]
     IN db' = [db EXCEPT !.StockLedger = Append(@, entry)]
  /\ resp' = [resp EXCEPT ![r] = ResponseBody(200, loc[r].allocation)]
  /\ pc' = [pc EXCEPT ![r] = "idle"]
  /\ loc' = [loc EXCEPT ![r] = NoLoc]
  /\ UNCHANGED <<revision, req, attempt, view, wset, stale, waited, ncommit, log, nreq>>

\* a database call of updateStock throws: the catch block answers 500
updateStockThrow(r) ==
  /\ pc[r] \in {"updateStockApply", "updateStockLedger"}
  /\ resp' = [resp EXCEPT ![r] = Response(500, "Internal server error")]
  /\ pc' = [pc EXCEPT ![r] = "idle"]
  /\ loc' = [loc EXCEPT ![r] = NoLoc]
  /\ UNCHANGED <<revision, db, req, attempt, view, wset, stale, waited, ncommit, log, nreq>>

\* ------------------------------------------------ createEvent, updateEvent
\* a field of a request body: <<>> when absent, <<x>> when given; a date is
\* given as a day, or as text that Joi.date() cannot convert
Day(d) == [valid |-> TRUE, day |-> d]
NoDate == [valid |-> FALSE, day |-> 0]
IsDate(f) == f # <<>> /\ f[1].valid

\* eventSchema.validate: the message of the first rule broken, "" if none
\* (variant: dateTo is not compared with dateFrom)
eventSchemaNoRef(value) ==
  IF value.name = <<>> THEN "\"name\" is required"
  ELSE IF value.name[1] = "" THEN "\"name\" is not allowed to be empty"
  ELSE IF value.dateFrom = <<>> THEN "\"dateFrom\" is required"
  ELSE IF ~IsDate(value.dateFrom) THEN "\"dateFrom\" must be a valid date"
  ELSE IF value.dateTo = <<>> THEN "\"dateTo\" is required"
  ELSE IF ~IsDate(value.dateTo) THEN "\"dateTo\" must be a valid date"
  ELSE IF value.budget # <<>> /\ value.budget[1] < 0
    THEN "\"budget\" must be greater than or equal to 0"
  ELSE ""
eventSchema(value) ==
  IF value.name = <<>> THEN "\"name\" is required"
  ELSE IF value.name[1] = "" THEN "\"name\" is not allowed to be empty"
  ELSE IF value.dateFrom = <<>> THEN "\"dateFrom\" is required"
  ELSE IF ~IsDate(value.dateFrom) THEN "\"dateFrom\" must be a valid date"
  ELSE IF value.dateTo = <<>> THEN "\"dateTo\" is required"
  ELSE IF ~IsDate(value.dateTo) THEN "\"dateTo\" must be a valid date"
  ELSE IF value.dateTo[1].day < value.dateFrom[1].day
    THEN "\"dateTo\" must be greater than or equal to \"ref:dateFrom\""
  ELSE IF value.budget # <<>> /\ value.budget[1] < 0
    THEN "\"budget\" must be greater than or equal to 0"
  ELSE ""

\* an event as new Event() makes it
Event0 == [status |-> "confirmed", selections |-> <<>>, advance |-> 0, dispatches |-> <<>>,
           dispatchDrafts |-> <<>>, returns |-> <<>>, name |-> "event",
           dateFrom |-> 1, dateTo |-> 1]

FreeEvents == {e \in EventIds : db.Event[e].status = "none"}

\* a request on events served by one write outside any transaction
ServeEvent(r, rq, response, events) ==
  /\ pc[r] = "idle"
  /\ nreq < MaxReq
  /\ nreq' = nreq + 1
  /\ req' = [req EXCEPT ![r] = rq]
  /\ attempt' = [attempt EXCEPT ![r] = 1]
  /\ waited' = [waited EXCEPT ![r] = <<>>]
  /\ ncommit' = [ncommit EXCEPT ![r] = 0]
  /\ log' = [log EXCEPT ![r] = <<>>]
  /\ resp' = [resp EXCEPT ![r] = response]
  /\ db' = [db EXCEPT !.Event = events]
  /\ stale' = StaleAfter(r, {DocEvent(e) : e \in {o \in EventIds : events[o] # db.Event[o]}})
  /\ UNCHANGED <<revision, pc, view, wset, loc>>

\* new Event(value).save()
createEvent(r, value) ==
  /\ FreeEvents # {}
  /\ LET e == CHOOSE m \in FreeEvents : \A o \in FreeEvents : m <= o
         rq == [h |-> "createEvent", id |-> e, value |-> value]
         error == eventSchema(value)
     IN IF error # ""
          THEN ServeEvent(r, rq, Response(400, error), db.Event)
          ELSE ServeEvent(r, rq, Response(201, ""),
                          [db.Event EXCEPT ![e] = [Event0 EXCEPT !.name = value.name[1],
                                                                 !.dateFrom = value.dateFrom[1].day,
                                                                 !.dateTo = value.dateTo[1].day]])

\* Event.findByIdAndUpdate(id, value)
updateEvent(r, id, value) ==
  LET rq == [h |-> "updateEvent", id |-> id, value |-> value]
      error == eventSchema(value)
  IN IF error # ""
       THEN ServeEvent(r, rq, Response(400, error), db.Event)
     ELSE IF EventMissing(id)
       THEN ServeEvent(r, rq, Response(404, "Event not found"), db.Event)
     ELSE /\ ~Locked(DocEvent(id))
          /\ ServeEvent(r, rq, Response(200, ""),
                        [db.Event EXCEPT ![id].name = value.name[1],
                                         ![id].dateFrom = value.dateFrom[1].day,
                                         ![id].dateTo = value.dateTo[1].day])

\* ------------------------------------------------- createInvoicePayment
\* validation, Invoice.findById and the credit, outside any transaction;
\* invoicePaymentSchema is taken to accept every amount that is a number
createInvoicePayment(r, n, amount) ==
  /\ pc[r] = "idle"
  /\ nreq < MaxReq
  /\ nreq' = nreq + 1
  /\ req' = [req EXCEPT ![r] = [h |-> "createInvoicePayment", id |-> n, amount |-> amount]]
  /\ attempt' = [attempt EXCEPT ![r] = 1]
  /\ waited' = [waited EXCEPT ![r] = <<>>]
  /\ ncommit' = [ncommit EXCEPT ![r] = 0]
  /\ log' = [log EXCEPT ![r] = <<>>]
  /\ IF n \notin InvoiceIds \/ db.Invoice[n].status = "none"
       THEN /\ resp' = [resp EXCEPT ![r] = Response(404, "Invoice not found")]
            /\ UNCHANGED <<pc, loc>>
     ELSE IF amount <= 0
       THEN /\ resp' = [resp EXCEPT ![r] = Response(400, "Amount must be > 0")]
            /\ UNCHANGED <<pc, loc>>
     ELSE LET currentPaid == db.Invoice[n].totals.paid
              grand == db.Invoice[n].totals.grandTotal
              pendingBefore == Max(0, grand - currentPaid)
              credit == Min(amount, pendingBefore)
          IN /\ resp' = [resp EXCEPT ![r] = NoResp]
             /\ pc' = [pc EXCEPT ![r] = "paymentSave"]
             /\ loc' = [loc EXCEPT ![r] = [currentPaid |-> currentPaid, grand |-> grand,
                                           pendingBefore |-> pendingBefore,
                                           credit |-> credit]]
  /\ UNCHANGED <<revision, db, view, wset, stale>>

\* payment.save()
paymentSave(r) ==
  /\ pc[r] = "paymentSave"
  /\ db' = [db EXCEPT !.Payment = Append(@, [invoiceId |-> req[r].id,
                                             amount |-> loc[r].credit])]
  /\ pc' = [pc EXCEPT ![r] = "paymentInvoiceSave"]
  /\ UNCHANGED <<revision, req, attempt, view, wset, stale, loc, resp, waited, ncommit,
                 log, nreq>>

\* invoice.save() of the new paid and pending, and the response
paymentInvoiceSave(r) ==
  /\ pc[r] = "paymentInvoiceSave"
  /\ LET n == req[r].id
         newPaid == toFixed2(loc[r].currentPaid + loc[r].credit)
         newPending == Max(0, toFixed2(loc[r].grand - newPaid))
     IN IF db.Invoice[n].status = "none"
          THEN /\ resp' = [resp EXCEPT ![r] = Response(500, "Internal server error")]
               /\ UNCHANGED <<db, stale>>
          ELSE /\ ~Locked(DocInvoice(n))
               /\ db' = [db EXCEPT !.Invoice[n].totals.paid = newPaid,
                                   !.Invoice[n].totals.pending = newPending]
               /\ stale' = StaleAfter(r, {DocInvoice(n)})
               /\ resp' = [resp EXCEPT ![r] =
                             ResponseBody(201, [payment |-> loc[r].credit,
                                                paid |-> newPaid,
                                                pending |-> newPending])]
  /\ pc' = [pc EXCEPT ![r] = "idle"]
  /\ loc' = [loc EXCEPT ![r] = NoLoc]
  /\ UNCHANGED <<revision, req, attempt, view, wset, waited, ncommit, log, nreq>>

PaymentStep(r) == paymentSave(r) \/ paymentInvoiceSave(r)

\* ------------------------------------------------------ initial states
Product0 == [stockQty |-> InitStock, buyPrice |-> 4000, sellPrice |-> 6000]
Invoice0 == [status |-> "none", items |-> <<>>, totals |-> Totals0]
Issue0 == [exists |-> FALSE, qtyIssued |-> 0, qtyReturned |-> 0]

Db0 ==
  [Product |-> [p \in Products |-> Product0],
   Event |-> [e \in EventIds |-> Event0],
   Lead |-> [e \in EventIds |-> "warm"],
   Invoice |-> [n \in InvoiceIds |-> Invoice0],
   B2BStock |-> [l \in Lots |-> [productId |-> 1, quantityAvailable |-> InitLotQty]],
   IssueRegister |-> [p \in Products |-> Issue0],
   StockLedger |-> <<>>,
   IssueTxn |-> <<>>,
   AuditLog |-> <<>>,
   Payment |-> <<>>]

Idle ==
  /\ req = [r \in Procs |-> NoReq]
  /\ pc = [r \in Procs |-> "idle"]
  /\ attempt = [r \in Procs |-> 0]
  /\ view = [r \in Procs |-> NoView]
  /\ wset = [r \in Procs |-> {}]
  /\ stale = [r \in Procs |-> {}]
  /\ loc = [r \in Procs |-> NoLoc]
  /\ resp = [r \in Procs |-> NoResp]
  /\ waited = [r \in Procs |-> <<>>]
  /\ ncommit = [r \in Procs |-> 0]
  /\ log = [r \in Procs |-> <<>>]
  /\ nreq = 0

\* ------------------------------------------------------------ requests
Seqs(S, n) == UNION {[1..k -> S] : k \in 0..n}
NonEmpty(S, n) == Seqs(S, n) \ {<<>>}

DispatchItem(ps, qs, rates) == [productId : ps, qty : qs, rate : rates]
ReturnItem(ps, es, qs) ==
  [productId : ps, expected : es, returned : qs, shortage : {<<>>},
   damageAmount : {0}, lateFee : {0}, lossPrice : {<<>>}, rate : {<<>>}]
InvoiceItem(ps, qs) == [productId : ps, qty : qs]

\* the steps of the requests in flight
Step(r) ==
  \/ dispatchAttempt(r)
  \/ dispatchItem(r)
  \/ dispatchSave(r)
  \/ dispatchRead(r)
  \/ returnAttempt(r)
  \/ returnItem(r)
  \/ returnSave(r)
  \/ returnRead(r)
  \/ retry(r)
  \/ \E kind \in {"transient", "other"} : throwError(r, kind)

StockStep(r) ==
  \/ updateStockApply(r)
  \/ updateStockLedger(r)
  \/ updateStockThrow(r)

\* -------------------------------------- all handlers, running concurrently
Init ==
  /\ revision \in {"invoices.ts", "part_003"}
  /\ db = Db0
  /\ Idle

AllItems == {[productId |-> 1, qty |-> MaxQty], [productId |-> UnknownProduct, qty |-> 1]}

Next ==
  \E r \in Procs :
    \/ \E items \in Seqs({[productId |-> 1, qty |-> MaxQty, rate |-> 1000],
                          [productId |-> UnknownProduct, qty |-> 1, rate |-> 1000]}, MaxItems) :
         dispatchEvent(r, 1, items, FALSE)
    \/ \E items \in Seqs(ReturnItem({1}, {1}, {1}), 1) : returnEvent(r, 1, items)
    \/ Step(r)
    \/ \E st \in {"draft", "final"}, items \in Seqs(AllItems, MaxItems) :
         createInvoice(r, [status |-> st, items |-> items, totals |-> Totals0])
    \/ \E n \in InvoiceIds, st \in {"draft", "final"} :
         updateInvoice(r, n, [status |-> st, items |-> <<[productId |-> 1, qty |-> MaxQty]>>,
                                totals |-> Totals0])
    \/ \E n \in InvoiceIds : deleteInvoice(r, n)
    \/ \E n \in InvoiceIds : returnInvoice(r, n)
    \/ \E p \in {1, UnknownProduct}, t \in {"in", "out", "adjustment"} :
         updateStock(r, [productId |-> p, type |-> t, quantity |-> MaxQty])
    \/ StockStep(r)

Spec == Init /\ [][Next]_vars

\* C1: every Product.stockQty is non-negative in every reachable state
StockNonNegative == \A p \in Products : db.Product[p].stockQty >= 0

ShortageErrors == {"Insufficient stock", "Stock Required",
                   "Insufficient stock for this operation"}

\* stock has been taken and a later request was refused for lack of it
StockExhausted ==
  \E r \in Procs :
    /\ pc[r] = "idle"
    /\ resp[r].error \in ShortageErrors
    /\ \E p \in Products : db.Product[p].stockQty < InitStock

\* ------------------------- dispatches and returns, running concurrently
InitEvents ==
  /\ revision = "invoices.ts"
  /\ db = Db0
  /\ Idle

EventsDispatchInputs ==
  NonEmpty(DispatchItem({1}, 1..MaxQty, {1000}), MaxItems)
    \cup {<<[productId |-> 1, qty |-> 1, rate |-> 1000],
            [productId |-> UnknownProduct, qty |-> 1, rate |-> 1000]>>}

EventsReturnInputs ==
  Seqs(ReturnItem({1}, {1}, {1}), 1)
    \cup {<<[productId |-> 1, expected |-> 1, returned |-> 1, shortage |-> <<>>,
             damageAmount |-> 0, lateFee |-> 0, lossPrice |-> <<>>, rate |-> <<>>],
            [productId |-> UnknownProduct, expected |-> 1, returned |-> 1, shortage |-> <<>>,
             damageAmount |-> 0, lateFee |-> 0, lossPrice |-> <<>>, rate |-> <<>>]>>}

NextEvents ==
  \E r \in Procs :
    \/ \E e \in EventIds, items \in EventsDispatchInputs : dispatchEvent(r, e, items, FALSE)
    \/ \E e \in EventIds, items \in EventsReturnInputs : returnEvent(r, e, items)
    \/ Step(r)

SpecEvents == InitEvents /\ [][NextEvents]_vars

RetryHandlers == {"dispatchEvent", "returnEvent"}
Answered(r) == pc[r] = "idle" /\ resp[r].status # 0

\* C3 (as claimed): a dispatch or return that did not succeed committed nothing
AllOrNothing ==
  \A r \in Procs :
    (req[r].h \in RetryHandlers /\ Answered(r) /\ resp[r].status # 200) => ncommit[r] = 0

\* C5: a request makes at most maxRetries attempts, and its third failure is
\* answered 500 without a further attempt
AtMostThreeAttempts ==
  \A r \in Procs :
    req[r].h \in RetryHandlers =>
      /\ attempt[r] <= maxRetries
      /\ Len(log[r]) <= maxRetries
      /\ Len(log[r]) = maxRetries => (pc[r] = "idle" /\ resp[r].status = 500)

ThreeTransientFailures ==
  \E r \in Procs :
    /\ req[r].h \in RetryHandlers
    /\ Len(log[r]) = maxRetries
    /\ \A k \in 1..Len(log[r]) : log[r][k].error = "transient"
    /\ resp[r].status = 500

\* C6 (as claimed): an error that is not transient ends the request with 500
\* after that attempt, whose transaction is aborted
OtherErrorAborts ==
  \A r \in Procs :
    req[r].h \in RetryHandlers =>
      \A k \in 1..Len(log[r]) :
        log[r][k].error # "transient" =>
          /\ k = Len(log[r])
          /\ pc[r] = "idle"
          /\ resp[r].status = 500
          /\ ncommit[r] = 0

\* the part of C6 the handlers do keep: only transient errors are retried
OnlyTransientRetried ==
  \A r \in Procs :
    req[r].h \in RetryHandlers =>
      \A k \in 1..Len(log[r]) :
        log[r][k].error # "transient" =>
          (k = Len(log[r]) /\ pc[r] = "idle" /\ resp[r].status = 500)

\* C7 (as claimed): the waits before the second and the third attempt are equal
FixedBackoff ==
  \A r \in Procs : Len(waited[r]) >= 2 => waited[r][1] = waited[r][2]

\* C7 (amended): the wait after the k-th failed attempt is k times 100 ms
LinearBackoff ==
  \A r \in Procs : \A k \in 1..Len(waited[r]) : waited[r][k] = BackoffUnit * k

TwoBackoffs == \E r \in Procs : Len(waited[r]) = 2 /\ pc[r] = "attempt"

\* quantity of product p in a list of request items or stored lines
QtyOf(lines, p, F(_)) ==
  SumSeq(MapSeq(SelectSeq(lines, LAMBDA x : x.productId = p), F))

\* quantity of p over all dispatch records of all events
DispatchedQty(p) ==
  SumSeq([e \in 1..Cardinality(EventIds) |->
            SumSeq(MapSeq(db.Event[e].dispatches,
                          LAMBDA d : QtyOf(d.items, p, LAMBDA x : x.qtyToSend)))])

\* quantity of p taken back by committed returns
ReturnedQty(p) ==
  QtyOf(SelectSeq(db.StockLedger, LAMBDA x : x.refType = "Return"), p,
        LAMBDA x : x.qtyChange)

IsDispatch(r) ==
  /\ req[r].h = "dispatchEvent"
  /\ ~req[r].dryRun
  /\ \A k \in 1..Len(req[r].items) : req[r].items[k].productId \in Products

Requested(r, p) == QtyOf(req[r].items, p, LAMBDA x : x.qty)

\* the two workers hold the only two requests made, both dispatches, and
\* together they ask for more of p than there is
Competing(p) ==
  /\ nreq = Cardinality(Procs)
  /\ \A r \in Procs : IsDispatch(r)
  /\ SumSeq([r \in 1..Cardinality(Procs) |-> Requested(r, p)]) > InitStock

RefusedForStock(r) == resp[r].status = 400 /\ resp[r].error = "Insufficient stock"

\* C4: of two dispatches competing for a product at most one commits, the
\* other is answered 400 insufficient stock or 500, and the stock is the
\* initial stock less exactly what the committed dispatches took
ConcurrentDispatch ==
  /\ \A p \in Products :
       /\ db.Product[p].stockQty >= 0
       /\ db.Product[p].stockQty = InitStock - DispatchedQty(p) + ReturnedQty(p)
  /\ \A p \in Products :
       Competing(p) =>
         /\ \E r \in Procs : ncommit[r] = 0
         /\ \A r \in Procs : ncommit[r] <= 1
         /\ \A r \in Procs :
              (Answered(r) /\ ncommit[r] = 0) => (RefusedForStock(r) \/ resp[r].status = 500)

\* one dispatch has committed and is not answered yet while the other, which
\* ran into its writes, has already been turned away
DispatchRace ==
  \E p \in Products, r, o \in Procs :
    /\ Competing(p)
    /\ pc[r] = "dispatchRead"
    /\ Answered(o) /\ ncommit[o] = 0
    /\ Len(log[o]) > 0
    /\ db.Product[p].stockQty = InitStock - Requested(r, p)

\* ------------------------------------ one worker, requests one at a time
InitSeq ==
  /\ revision = "invoices.ts"
  /\ db = Db0
  /\ Idle

SeqDispatchInputs ==
  Seqs(DispatchItem({1}, 1..MaxQty, {1000, 1006})
         \cup {[productId |-> 2, qty |-> 1, rate |-> 1000],
               [productId |-> 1, qty |-> 0, rate |-> 1000],
               [productId |-> UnknownProduct, qty |-> 1, rate |-> 1000]}, MaxItems)

NextSeq ==
  \/ \E e \in {1, UnknownEvent}, items \in SeqDispatchInputs, dryRun \in BOOLEAN :
       dispatchEvent(1, e, items, dryRun)
  \/ \E items \in Seqs(ReturnItem({1}, {1, MaxQty}, {1}), 1) : returnEvent(1, 1, items)
  \/ Step(1)

SpecSeq == InitSeq /\ [][NextSeq]_vars

\* the step on which worker r commits a dispatch that is not a dry run
DispatchCommits(r) ==
  /\ pc[r] = "dispatchSave"
  /\ pc'[r] = "dispatchRead"
  /\ ~req[r].dryRun

\* the hundredth nearest to x
Hundredth(x) ==
  CHOOSE c \in {10 * n : n \in (x \div 10)..(x \div 10 + 1)} : (c - x) \in (0 - 4)..5

\* what a committed dispatch changes, but for the total of its record
DispatchChanges(r) ==
  LET e == req[r].id
      n == Len(db.Event[e].dispatches)
  IN /\ \A p \in Products :
          db'.Product[p].stockQty = db.Product[p].stockQty - Requested(r, p)
     /\ Len(db'.Event[e].dispatches) = n + 1
     /\ SubSeq(db'.Event[e].dispatches, 1, n) = db.Event[e].dispatches
     /\ Len(db'.Event[e].dispatches[n + 1].items) = Len(req[r].items)
     /\ db'.Event[e].status = "dispatched"
     /\ \A o \in EventIds \ {e} : db'.Event[o] = db.Event[o]

RecordTotal(r) == db'.Event[req[r].id].dispatches[Len(db'.Event[req[r].id].dispatches)].total

SuccessCommitsOnce ==
  \A r \in Procs :
    (req[r].h = "dispatchEvent" /\ resp[r].status = 200) => ncommit[r] = 1

\* C2 (as claimed): a successful dispatch takes the summed quantity of each
\* listed product from its stock, leaves the other products alone, sets the
\* event to 'dispatched' and appends one record whose total is the sum of
\* qty * rate
DispatchEffectExact ==
  /\ []SuccessCommitsOnce
  /\ [][\A r \in Procs :
          DispatchCommits(r) =>
            /\ DispatchChanges(r)
            /\ RecordTotal(r) = SumSeq(MapSeq(req[r].items, LAMBDA x : x.qty * x.rate))]_vars

\* C2 (amended): as above, the total being the sum of the line amounts,
\* each qty * rate rounded to the hundredth
DispatchEffect ==
  /\ []SuccessCommitsOnce
  /\ [][\A r \in Procs :
          DispatchCommits(r) =>
            /\ DispatchChanges(r)
            /\ RecordTotal(r) =
                 SumSeq(MapSeq(req[r].items, LAMBDA x : Hundredth(x.qty * x.rate)))]_vars

\* a dispatch of two lines of one product, with a rate of three decimals,
\* has succeeded and emptied the stock
DispatchSucceeded ==
  \E r \in Procs :
    /\ req[r].h = "dispatchEvent" /\ ~req[r].dryRun
    /\ resp[r].status = 200
    /\ Len(req[r].items) = MaxItems
    /\ req[r].items[1].productId = req[r].items[2].productId
    /\ \E k \in 1..Len(req[r].items) : req[r].items[k].rate % 10 # 0
    /\ db.Product[req[r].items[1].productId].stockQty = 0
    /\ db.Event[req[r].id].status = "dispatched"

\* C8 (as claimed): a dispatch or an invoice finalization refused for lack of
\* stock is answered 400 with the product and the missing quantity, and
\* commits nothing
ShortageIs400 ==
  \A r \in Procs :
    (/\ req[r].h \in {"dispatchEvent", "createInvoice", "updateInvoice"}
     /\ Answered(r)
     /\ resp[r].error \in {"Insufficient stock", "Stock Required"})
    => /\ resp[r].status = 400
       /\ resp[r].productId \in Products
       /\ resp[r].shortage > 0
       /\ ncommit[r] = 0

\* C9 (as claimed): a request naming a product, event or invoice that does
\* not exist is answered 404
MissingIs404 ==
  \A r \in Procs :
    (Answered(r) /\ resp[r].error \in {"Product not found", "Event not found",
                                       "Invoice not found"})
    => resp[r].status = 404

\* ------------------------- allocations from varying main stock and lots
InitAlloc ==
  /\ revision = "part_003"
  /\ \E main \in 0..InitStock, q1, q2 \in 0..InitLotQty, owner \in Products :
       db = [Db0 EXCEPT
               !.Product[1].stockQty = main,
               !.B2BStock = [l \in Lots |->
                               [productId |-> IF l = 1 THEN 1 ELSE owner,
                                quantityAvailable |-> IF l = 1 THEN q1 ELSE q2]]]
  /\ Idle

NextAlloc ==
  \/ \E q \in 1..InitStock :
       updateStock(1, [productId |-> 1, type |-> "out", quantity |-> q])
  \/ StockStep(1)
  \/ \E q \in 1..InitStock :
       createInvoice(1, [status |-> "final", items |-> <<[productId |-> 1, qty |-> q]>>,
                         totals |-> Totals0])
  \/ \E items \in [1..MaxItems -> InvoiceItem({1}, 1..InitStock)] :
       createInvoice(1, [status |-> "final", items |-> items, totals |-> Totals0])

SpecAlloc == InitAlloc /\ [][NextAlloc]_vars

\* worker r completes a manual stock-out on this step
StockOutApplied(r) ==
  /\ pc[r] = "updateStockApply"
  /\ pc'[r] = "updateStockLedger"
  /\ req[r].value.type = "out"

\* worker r finalizes a new invoice on this step
InvoiceFinalized(r) ==
  /\ pc[r] = "idle"
  /\ nreq' = nreq + 1
  /\ req'[r].h = "createInvoice"
  /\ resp'[r].status = 201

\* what lot l gives on this step
LotTaken(l) == db.B2BStock[l].quantityAvailable - db'.B2BStock[l].quantityAvailable

\* the step allocates q of product p as C10 describes
AllocatesMainFirst(p, q) ==
  LET main == db.Product[p].stockQty
      mainTaken == main - db'.Product[p].stockQty
  IN /\ mainTaken = Min(q, main)
     /\ \A l \in Lots : LotTaken(l) >= 0
     /\ \A l \in Lots : db.B2BStock[l].productId # p => LotTaken(l) = 0
     /\ mainTaken + SumSeq([l \in 1..Cardinality(Lots) |-> LotTaken(l)]) = q
     /\ main >= q => db'.B2BStock = db.B2BStock
     /\ \A l1, l2 \in Lots :
          (/\ l1 < l2
           /\ db.B2BStock[l1].productId = p
           /\ LotTaken(l2) > 0) => db'.B2BStock[l1].quantityAvailable = 0

\* the allocation reported by a manual stock-out is the one made
ReportsAllocation(r) ==
  LET a == loc'[r].allocation
  IN /\ a.mainUsed = db.Product[req[r].value.productId].stockQty
                       - db'.Product[req[r].value.productId].stockQty
     /\ a.mainUsed + SumSeq(MapSeq(a.b2bUsages, LAMBDA u : u.quantity)) = req[r].value.quantity
     /\ \A k \in 1..Len(a.b2bUsages) :
          a.b2bUsages[k].quantity = LotTaken(a.b2bUsages[k].stockId)
     /\ db.Product[req[r].value.productId].stockQty >= req[r].value.quantity
          => a.b2bUsages = <<>>

\* C10: an allocation of q takes min(q, main stock) from the main stock and
\* the remainder from the product's B2B lots in listed order; main taken plus
\* the b2bUsages is q, and no lot is touched when the main stock covers q
MainStockFirst ==
  [][\A r \in Procs :
       /\ StockOutApplied(r) =>
            /\ AllocatesMainFirst(req[r].value.productId, req[r].value.quantity)
            /\ ReportsAllocation(r)
       /\ InvoiceFinalized(r) =>
            AllocatesMainFirst(req'[r].value.items[1].productId,
                               QtyOf(req'[r].value.items, req'[r].value.items[1].productId,
                                     LAMBDA x : x.qty))]_vars

\* a stock-out answered with an allocation drawn from the main stock and
\* from both lots
AllocatedAcrossLots ==
  \E r \in Procs :
    /\ req[r].h = "updateStock"
    /\ resp[r].status = 200
    /\ resp[r].body # NoBody
    /\ resp[r].body.mainUsed > 0
    /\ Len(resp[r].body.b2bUsages) = Cardinality(Lots)

\* main stock plus the lots of product p
Available(p) ==
  db.Product[p].stockQty
    + SumSeq([l \in 1..Cardinality(Lots) |->
                IF db.B2BStock[l].productId = p THEN db.B2BStock[l].quantityAvailable ELSE 0])

StockUntouched == db'.Product = db.Product /\ db'.B2BStock = db.B2BStock

\* quantity asked by the first k lines
Cumulative(items, k) == SumSeq(MapSeq(SubSeq(items, 1, k), LAMBDA x : x.qty))

\* C11: an allocation of more than main stock plus B2B lots fails as
\* INSUFFICIENT_STOCK, is answered 400, leaves the product and every lot
\* as they were, and the shortage answered is requested - main - B2B
InsufficientAllocation ==
  [][\A r \in Procs :
       /\ (/\ pc[r] = "updateStockApply"
           /\ pc'[r] # pc[r]
           /\ req[r].value.type = "out"
           /\ resp'[r].status # 500)
          => IF Available(req[r].value.productId) < req[r].value.quantity
               THEN /\ resp'[r].status = 400
                    /\ resp'[r].error = "Insufficient stock for this operation"
                    /\ StockUntouched
                    /\ db'.StockLedger = db.StockLedger
               ELSE pc'[r] = "updateStockLedger"
       /\ (/\ pc[r] = "idle"
           /\ nreq' = nreq + 1
           /\ req'[r].h = "createInvoice")
          => LET items == req'[r].value.items
                 p == items[1].productId
             IN IF Available(p) < Cumulative(items, Len(items))
                  THEN /\ resp'[r].status = 400
                       /\ resp'[r].error = "Stock Required"
                       /\ resp'[r].productId = p
                       /\ \E k \in 1..Len(items) :
                            /\ Cumulative(items, k - 1) <= Available(p)
                            /\ Cumulative(items, k) > Available(p)
                            /\ resp'[r].shortage = Cumulative(items, k) - Available(p)
                       /\ db' = db
                  ELSE resp'[r].status = 201]_vars

\* an invoice of two lines was refused at its second line, the first having
\* been allocated inside the transaction
RefusedAtSecondLine ==
  \E r \in Procs :
    /\ req[r].h = "createInvoice"
    /\ Len(req[r].value.items) = MaxItems
    /\ resp[r].status = 400
    /\ resp[r].error = "Stock Required"
    /\ resp[r].shortage > 0
    /\ resp[r].shortage < req[r].value.items[MaxItems].qty
    /\ req[r].value.items[1].qty <= Available(1)

\* C12 (as claimed): the stock taken by an allocation and the StockLedger
\* entry recording it are persisted together or not at all: a manual
\* stock-out that has written the stock ends with its ledger entry written,
\* and an invoice request changes the stock exactly when it adds to the ledger
StockAndLedgerTogether ==
  [][\A r \in Procs :
       /\ (/\ req[r].h = "updateStock"
           /\ pc[r] = "updateStockLedger"
           /\ pc'[r] = "idle")
          => Len(db'.StockLedger) = Len(db.StockLedger) + 1
       /\ (/\ pc[r] = "idle"
           /\ nreq' = nreq + 1
           /\ req'[r].h = "createInvoice")
          => (StockUntouched <=> db'.StockLedger = db.StockLedger)]_vars

\* --------------------- returns against an event in its various conditions
\* the lines of the dispatch or agreement the event starts with
StartLines == <<SelectionLine(1, MaxQty, 1000), SelectionLine(2, 1, 1000)>>

\* event 1 as created, after an agreement, or after a dispatch of StartLines
InitReturn ==
  /\ revision = "invoices.ts"
  /\ \E lead \in {"warm", "cold"}, shape \in {"created", "agreed", "dispatched"} :
       db = [Db0 EXCEPT
               !.Lead[1] = lead,
               !.Event[1] =
                 CASE shape = "created" -> Event0
                   [] shape = "agreed" -> [Event0 EXCEPT !.selections = StartLines]
                   [] OTHER -> [Event0 EXCEPT
                                  !.dispatches = <<[items |-> StartLines,
                                                    total |-> MaxQty * 1000 + 1000]>>,
                                  !.status = "dispatched"],
               !.Product = [p \in Products |->
                              IF shape = "dispatched"
                                THEN [Product0 EXCEPT !.stockQty =
                                        InitStock - QtyOf(StartLines, p, LAMBDA x : x.qtyToSend)]
                                ELSE Product0],
               !.AuditLog = IF shape = "dispatched"
                              THEN <<[action |-> "dispatch", entity |-> "Event", entityId |-> 1,
                                      total |-> MaxQty * 1000 + 1000]>>
                              ELSE <<>>]
  /\ Idle

ReturnLine(p, e, q, sh, dmg, late, loss, rate) ==
  [productId |-> p, expected |-> e, returned |-> q, shortage |-> sh,
   damageAmount |-> dmg, lateFee |-> late, lossPrice |-> loss, rate |-> rate]

ReturnLines ==
  {ReturnLine(1, MaxQty, 1, <<>>, 0, 0, <<>>, <<>>),
   ReturnLine(1, 1, 1, <<>>, 0, 0, <<>>, <<>>),
   ReturnLine(2, 1, 1, <<1>>, 0, 0, <<1006>>, <<>>),
   ReturnLine(1, MaxQty, 0, <<>>, 1004, 1004, <<>>, <<>>),
   ReturnLine(2, MaxQty, MaxQty, <<>>, 500, 250, <<>>, <<1000>>),
   ReturnLine(UnknownProduct, 1, 1, <<>>, 0, 0, <<>>, <<>>),
   ReturnLine(1, 1, 0 - 1, <<>>, 0, 0, <<>>, <<>>)}

NextReturn ==
  \/ \E items \in Seqs(ReturnLines, MaxItems) : returnEvent(1, 1, items)
  \/ \E dryRun \in BOOLEAN, n \in 0..MaxItems :
       dispatchEvent(1, 1, [k \in 1..n |-> [productId |-> 1, qty |-> 1, rate |-> 1000]],
                     dryRun)
  \/ \E e \in {1, UnknownEvent}, adv \in {0, 1000} :
       saveAgreement(1, e, <<[productId |-> 2, qtyToSend |-> 1, rate |-> 1000,
                              amount |-> 1000]>>, adv)
  \/ Step(1)

SpecReturn == InitReturn /\ [][NextReturn]_vars

\* the step on which worker r commits a return
ReturnCommits(r) == pc[r] = "returnSave" /\ pc'[r] = "returnRead"

\* the entries appended to a collection on this step
Appended(old, new) == SubSeq(new, Len(old) + 1, Len(new))

\* C13: a successful return adds to the stock of each listed product the
\* returned quantity of its lines, leaves the other products alone, writes
\* one StockLedger entry (qtyChange = returned, reason 'return') and one
\* IssueTxn entry per line, and appends one record to event.returns
ReturnEffect ==
  /\ [](\A r \in Procs :
          (req[r].h = "returnEvent" /\ resp[r].status = 200) => ncommit[r] = 1)
  /\ [][\A r \in Procs :
          ReturnCommits(r) =>
            LET items == req[r].items
                e == req[r].id
                ledger == Appended(db.StockLedger, db'.StockLedger)
                txns == Appended(db.IssueTxn, db'.IssueTxn)
            IN /\ \A p \in Products :
                    db'.Product[p].stockQty =
                      db.Product[p].stockQty + QtyOf(items, p, LAMBDA x : x.returned)
               /\ SubSeq(db'.StockLedger, 1, Len(db.StockLedger)) = db.StockLedger
               /\ Len(ledger) = Len(items)
               /\ \A k \in 1..Len(items) :
                    /\ ledger[k].productId = items[k].productId
                    /\ ledger[k].qtyChange = items[k].returned
                    /\ ledger[k].reason = "return"
               /\ SubSeq(db'.IssueTxn, 1, Len(db.IssueTxn)) = db.IssueTxn
               /\ Len(txns) = Len(items)
               /\ \A k \in 1..Len(items) :
                    /\ txns[k].productId = items[k].productId
                    /\ txns[k].qty = items[k].returned
                    /\ txns[k].type = "return"
               /\ Len(db'.Event[e].returns) = Len(db.Event[e].returns) + 1
               /\ SubSeq(db'.Event[e].returns, 1, Len(db.Event[e].returns))
                    = db.Event[e].returns
               /\ Len(db'.Event[e].returns[Len(db'.Event[e].returns)].items) = Len(items)]_vars

\* a return of two lines of two products has succeeded
ReturnSucceeded ==
  \E r \in Procs :
    /\ req[r].h = "returnEvent"
    /\ resp[r].status = 200
    /\ Len(req[r].items) = MaxItems
    /\ req[r].items[1].productId # req[r].items[2].productId
    /\ req[r].items[1].returned > 0
    /\ Len(db.Event[req[r].id].returns) > 0
    /\ Len(db.StockLedger) >= MaxItems

\* the summary lines, the summary and the stored record of the return that
\* worker r commits on this step
SummaryOf(r) == loc'[r].summary
StoredReturn(r) == db'.Event[req[r].id].returns[Len(db'.Event[req[r].id].returns)]

\* shortage and loss price of line k as C14 gives them
ShortageOf(r, k) ==
  IF req[r].items[k].shortage = <<>>
    THEN Max(0, req[r].items[k].expected - req[r].items[k].returned)
    ELSE req[r].items[k].shortage[1]
LossPriceOf(r, k) ==
  IF req[r].items[k].lossPrice = <<>>
    THEN db.Product[req[r].items[k].productId].buyPrice
    ELSE req[r].items[k].lossPrice[1]

SumLines(r, F(_)) == SumSeq(MapSeq(SummaryOf(r).lines, F))

\* C14: shortage defaults to max(0, expected - returned),
\* shortageCost = shortage * lossPrice, lineAdjust = shortageCost +
\* damageAmount + lateFee, and the total of the stored record is the sum of
\* lineAdjust and the sum of the three totals of the summary
ReturnArithmeticExact ==
  [][\A r \in Procs :
       ReturnCommits(r) =>
         LET lines == SummaryOf(r).lines
         IN /\ Len(lines) = Len(req[r].items)
            /\ \A k \in 1..Len(lines) :
                 /\ lines[k].shortage = ShortageOf(r, k)
                 /\ lines[k].lossPrice = LossPriceOf(r, k)
                 /\ lines[k].shortageCost = lines[k].shortage * lines[k].lossPrice
                 /\ lines[k].lineAdjust =
                      lines[k].shortageCost + lines[k].damageAmount + lines[k].lateFee
            /\ StoredReturn(r).total = SumLines(r, LAMBDA x : x.lineAdjust)
            /\ StoredReturn(r).total =
                 SummaryOf(r).totalShortageCost + SummaryOf(r).totalDamage
                   + SummaryOf(r).totalLate]_vars

\* every damage amount and late fee of the request is in whole hundredths
TwoDecimals(r) ==
  \A k \in 1..Len(req[r].items) :
    req[r].items[k].damageAmount % 10 = 0 /\ req[r].items[k].lateFee % 10 = 0

\* what the handler computes: as above with every product and sum rounded
\* to the hundredth where the handler rounds it; the total equals the sum
\* of lineAdjust and the sum of the summary's totals when the damage
\* amounts and late fees are given in whole hundredths
ReturnArithmetic ==
  [][\A r \in Procs :
       ReturnCommits(r) =>
         LET lines == SummaryOf(r).lines
             costs == SumLines(r, LAMBDA x : x.shortageCost)
             damages == SumLines(r, LAMBDA x : x.damageAmount)
             lates == SumLines(r, LAMBDA x : x.lateFee)
         IN /\ Len(lines) = Len(req[r].items)
            /\ \A k \in 1..Len(lines) :
                 /\ lines[k].shortage = ShortageOf(r, k)
                 /\ lines[k].lossPrice = LossPriceOf(r, k)
                 /\ lines[k].damageAmount = req[r].items[k].damageAmount
                 /\ lines[k].lateFee = req[r].items[k].lateFee
                 /\ lines[k].shortageCost = Hundredth(lines[k].shortage * lines[k].lossPrice)
                 /\ lines[k].lineAdjust =
                      Hundredth(lines[k].shortageCost + lines[k].damageAmount
                                  + lines[k].lateFee)
            /\ StoredReturn(r).total = Hundredth(costs + damages + lates)
            /\ SummaryOf(r).totalShortageCost = Hundredth(costs)
            /\ SummaryOf(r).totalDamage = Hundredth(damages)
            /\ SummaryOf(r).totalLate = Hundredth(lates)
            /\ TwoDecimals(r) =>
                 /\ StoredReturn(r).total = SumLines(r, LAMBDA x : x.lineAdjust)
                 /\ StoredReturn(r).total =
                      SummaryOf(r).totalShortageCost + SummaryOf(r).totalDamage
                        + SummaryOf(r).totalLate]_vars

\* a return has been answered whose lines carry a supplied shortage and
\* loss price, a defaulted shortage, and amounts of three decimals
ReturnPriced ==
  \E r \in Procs :
    /\ req[r].h = "returnEvent"
    /\ resp[r].status = 200
    /\ Len(resp[r].body.lines) = MaxItems
    /\ \E k \in 1..MaxItems :
         /\ req[r].items[k].shortage # <<>>
         /\ req[r].items[k].lossPrice # <<>>
         /\ resp[r].body.lines[k].shortageCost > 0
    /\ \E k \in 1..MaxItems :
         /\ req[r].items[k].shortage = <<>>
         /\ resp[r].body.lines[k].shortage > 0
         /\ resp[r].body.lines[k].damageAmount % 10 # 0

\* ------------------------------------------------- payments of an invoice
\* invoice 1 is final; its totals are the ones createInvoice stored, which
\* the schema only bounds below
StoredTotals ==
  {[grandTotal |-> 10000, paid |-> 0, pending |-> 10000],
   [grandTotal |-> 10000, paid |-> 4000, pending |-> 6000],
   [grandTotal |-> 10006, paid |-> 0, pending |-> 10006],
   [grandTotal |-> 10000, paid |-> 20000, pending |-> 0]}

PaymentAmounts == {0 - 1000, 0, 4000, 6000, 10006, 20000}

InitPay ==
  /\ revision = "invoices.ts"
  /\ \E t \in StoredTotals :
       db = [Db0 EXCEPT !.Invoice[1] = [status |-> "final", items |-> <<>>, totals |-> t]]
  /\ Idle

NextPay ==
  \E r \in Procs :
    \/ \E n \in {1, UnknownInvoice}, amount \in PaymentAmounts :
         createInvoicePayment(r, n, amount)
    \/ PaymentStep(r)

SpecPay == InitPay /\ [][NextPay]_vars

\* the totals t are consistent
TotalsConsistent(t) ==
  /\ 0 <= t.paid
  /\ t.paid <= t.grandTotal
  /\ t.pending = t.grandTotal - t.paid
  /\ t.pending >= 0

\* C15: createInvoicePayment keeps 0 <= paid <= grandTotal and pending =
\* grandTotal - paid >= 0; each payment recorded credits min(amount, pending
\* before); an amount <= 0 is answered 400 and records nothing
PaymentKeepsTotals ==
  [][\A r \in Procs :
       /\ (pc[r] = "paymentInvoiceSave" /\ pc'[r] = "idle"
             /\ TotalsConsistent(db.Invoice[req[r].id].totals))
            => TotalsConsistent(db'.Invoice[req[r].id].totals)
       /\ (pc[r] = "paymentSave" /\ pc'[r] = "paymentInvoiceSave")
            => /\ Len(db'.Payment) = Len(db.Payment) + 1
               /\ db'.Payment[Len(db'.Payment)].amount =
                    IF req[r].amount < loc[r].pendingBefore
                      THEN req[r].amount ELSE loc[r].pendingBefore
       /\ (pc[r] = "idle" /\ req'[r] # req[r] /\ req'[r].h = "createInvoicePayment"
             /\ req'[r].id \in InvoiceIds /\ req'[r].amount <= 0)
            => (resp'[r].status = 400 /\ db' = db /\ pc'[r] = "idle")]_vars

\* a payment on consistent totals has left paid above grandTotal
PaidAboveTotal ==
  \E r \in Procs :
    /\ req[r].h = "createInvoicePayment"
    /\ resp[r].status = 201
    /\ Len(db.Payment) = 1
    /\ db.Payment[1].amount <= db.Invoice[1].totals.grandTotal
    /\ db.Invoice[1].totals.paid > db.Invoice[1].totals.grandTotal

\* every amount of the totals and of the requests so far is in whole hundredths
WholeHundredths ==
  /\ db.Invoice[1].totals.grandTotal % 10 = 0
  /\ \A r \in Procs : req[r].h = "createInvoicePayment" => req[r].amount % 10 = 0

\* what holds of a payment: with amounts in whole hundredths, consistent
\* totals stay consistent
PaymentKeepsRoundTotals ==
  [][\A r \in Procs :
       (pc[r] = "paymentInvoiceSave" /\ pc'[r] = "idle" /\ WholeHundredths
          /\ TotalsConsistent(db.Invoice[req[r].id].totals))
         => TotalsConsistent(db'.Invoice[req[r].id].totals)]_vars

\* ------------------------------------------------ the dates of an event
\* event 1 exists, the second event is still to be created
OptionalOf(S) == {<<>>} \cup {<<x>> : x \in S}

EventValues ==
  [name : OptionalOf({"", "wedding"}),
   dateFrom : OptionalOf({Day(1), Day(2), NoDate}),
   dateTo : OptionalOf({Day(1), Day(2), NoDate}),
   budget : OptionalOf({0 - 1, 5000})]

InitDates ==
  /\ revision = "invoices.ts"
  /\ db = [Db0 EXCEPT !.Event[2].status = "none"]
  /\ Idle

\* each handler is one step, so one worker serves the requests in turn
NextDates ==
  \E value \in EventValues :
    \/ createEvent(1, value)
    \/ \E id \in {1, UnknownEvent} : updateEvent(1, id, value)

SpecDates == InitDates /\ [][NextDates]_vars

\* the body of a request breaks a rule of eventSchema
BreaksEventRule(value) ==
  \/ value.name \in {<<>>, <<"">>}
  \/ value.dateFrom = <<>> \/ value.dateFrom[1] = NoDate
  \/ value.dateTo = <<>> \/ value.dateTo[1] = NoDate
  \/ value.dateTo[1].day < value.dateFrom[1].day
  \/ (value.budget # <<>> /\ value.budget[1] < 0)

\* C16: every event stored has dateTo >= dateFrom; a createEvent or
\* updateEvent whose body breaks a rule of eventSchema is answered 400 with
\* the validation message and changes nothing, and a body that breaks none
\* is stored as given
EventDatesOrdered ==
  /\ [](\A e \in EventIds :
          db.Event[e].status # "none" => db.Event[e].dateTo >= db.Event[e].dateFrom)
  /\ [][\A r \in Procs :
          (nreq' = nreq + 1 /\ req'[r].h \in {"createEvent", "updateEvent"}) =>
              (IF BreaksEventRule(req'[r].value)
                 THEN /\ resp'[r].status = 400
                      /\ resp'[r].error # ""
                      /\ db' = db
                 ELSE /\ resp'[r].status \in {200, 201, 404}
                      /\ resp'[r].status # 404 =>
                           /\ db'.Event[req'[r].id].dateFrom = req'[r].value.dateFrom[1].day
                           /\ db'.Event[req'[r].id].dateTo = req'[r].value.dateTo[1].day
                           /\ db'.Event[req'[r].id].status # "none")]_vars

\* an update with dateTo before dateFrom has been refused and has left the
\* event as it was, and an event of a single day has been created
EventDatesRefused ==
  \E r \in Procs :
    /\ req[r].h = "updateEvent"
    /\ req[r].id = 1
    /\ IsDate(req[r].value.dateFrom) /\ IsDate(req[r].value.dateTo)
    /\ req[r].value.dateTo[1].day < req[r].value.dateFrom[1].day
    /\ resp[r].status = 400
    /\ db.Event[1] = Event0
    /\ db.Event[2].status = "confirmed"
    /\ db.Event[2].dateFrom = db.Event[2].dateTo

\* ------------------------------------------- the progress of the returns
\* the lines a return is counted against: those of the latest dispatch, or
\* the selections when nothing was dispatched
TargetOf(ev) ==
  IF Len(ev.dispatches) > 0 THEN ev.dispatches[Len(ev.dispatches)].items ELSE ev.selections

\* C17: a committed return adds to returnedQty of each line of the latest
\* dispatch (or of the selections) the returned quantities submitted for its
\* product, so that returnedQty is their sum over the committed returns;
\* completed is true iff returnedQty >= qtyToSend and never goes back to
\* false; the status is 'returned' exactly when every such line is completed
ReturnedQtyIsSum ==
  [][\A r \in Procs :
       ReturnCommits(r) =>
         LET old == TargetOf(db.Event[req[r].id])
             new == TargetOf(db'.Event[req[r].id])
         IN /\ Len(new) = Len(old)
            /\ \A k \in 1..Len(old) :
                 /\ new[k].returnedQty =
                      old[k].returnedQty
                        + QtyOf(req[r].items, old[k].productId, LAMBDA x : x.returned)
                 /\ new[k].completed <=> (new[k].returnedQty >= new[k].qtyToSend)
                 /\ old[k].completed => new[k].completed
            /\ (db'.Event[req[r].id].status = "returned")
                 <=> (\A k \in 1..Len(new) : new[k].completed)]_vars

\* no two of the lines are of the same product
DistinctProducts(lines) ==
  \A j, k \in 1..Len(lines) : lines[j].productId = lines[k].productId => j = k

\* what holds of the lines: the same, when no two lines of the latest
\* dispatch (or of the selections) are of the same product
ReturnedQtyIsSumOfDistinct ==
  [][\A r \in Procs :
       (ReturnCommits(r) /\ DistinctProducts(TargetOf(db.Event[req[r].id]))) =>
         LET old == TargetOf(db.Event[req[r].id])
             new == TargetOf(db'.Event[req[r].id])
         IN /\ Len(new) = Len(old)
            /\ \A k \in 1..Len(old) :
                 /\ new[k].returnedQty =
                      old[k].returnedQty
                        + QtyOf(req[r].items, old[k].productId, LAMBDA x : x.returned)
                 /\ new[k].completed <=> (new[k].returnedQty >= new[k].qtyToSend)
                 /\ old[k].completed => new[k].completed
            /\ (db'.Event[req[r].id].status = "returned")
                 <=> (\A k \in 1..Len(new) : new[k].completed)]_vars

\* everything dispatched in two lines of one product has come back, and the
\* second line is still open
SecondLineNeverReturned ==
  \E r \in Procs :
    /\ req[r].h = "returnEvent"
    /\ resp[r].status = 200
    /\ LET lines == TargetOf(db.Event[req[r].id])
       IN /\ Len(lines) = MaxItems
          /\ ~DistinctProducts(lines)
          /\ lines[1].returnedQty = SumSeq(MapSeq(lines, LAMBDA x : x.qtyToSend))
          /\ ~lines[MaxItems].completed
          /\ db.Event[req[r].id].status # "returned"

\* --------------------------------------------------- dry-run dispatches
\* the step on which worker r commits a dry run
DryRunCommits(r) ==
  /\ pc[r] = "dispatchSave"
  /\ pc'[r] = "dispatchRead"
  /\ req[r].dryRun

\* a line of the request of worker r asks for more than the stock
AsksTooMuch(r) ==
  \E k \in 1..Len(req[r].items) :
    /\ req[r].items[k].productId \in Products
    /\ req[r].items[k].qty > db.Product[req[r].items[k].productId].stockQty

\* the request names an event, and lines of products with positive quantities
WellFormed(r) ==
  /\ req[r].id \in EventIds
  /\ Len(req[r].items) > 0
  /\ \A k \in 1..Len(req[r].items) :
       req[r].items[k].productId \in Products /\ req[r].items[k].qty > 0

\* C18: a dry-run dispatch that succeeds leaves every stockQty and
\* event.dispatches unchanged, appends one record to dispatchDrafts with note
\* mode 'reserve', sets the status to 'reserved' and writes an audit entry
\* 'reserve'; it is answered 400 when a line asks for more than the stock
DryRunEffect ==
  /\ [][\A r \in Procs :
          DryRunCommits(r) =>
            LET e == req[r].id
                drafts == Appended(db.Event[e].dispatchDrafts, db'.Event[e].dispatchDrafts)
                audits == Appended(db.AuditLog, db'.AuditLog)
            IN /\ db'.Product = db.Product
               /\ db'.B2BStock = db.B2BStock
               /\ db'.StockLedger = db.StockLedger
               /\ db'.Event[e].dispatches = db.Event[e].dispatches
               /\ db'.Event[e].returns = db.Event[e].returns
               /\ SubSeq(db'.Event[e].dispatchDrafts, 1, Len(db.Event[e].dispatchDrafts))
                    = db.Event[e].dispatchDrafts
               /\ Len(drafts) = 1
               /\ drafts[1].note = "reserve"
               /\ Len(drafts[1].items) = Len(req[r].items)
               /\ \A k \in 1..Len(req[r].items) :
                    /\ drafts[1].items[k].productId = req[r].items[k].productId
                    /\ drafts[1].items[k].qtyToSend = req[r].items[k].qty
               /\ db'.Event[e].status = "reserved"
               /\ Len(audits) = 1
               /\ audits[1].action = "reserve"
               /\ audits[1].entityId = e
               /\ \A o \in EventIds \ {e} : db'.Event[o] = db.Event[o]]_vars
  /\ [](\A r \in Procs :
          (req[r].h = "dispatchEvent" /\ req[r].dryRun /\ resp[r].status = 200)
            => (ncommit[r] = 1 /\ ~AsksTooMuch(r)))
  /\ [](\A r \in Procs :
          (req[r].h = "dispatchEvent" /\ req[r].dryRun /\ resp[r].status \in {200, 400, 404}
             /\ WellFormed(r) /\ AsksTooMuch(r))
            => (resp[r].status = 400 /\ resp[r].error = "Insufficient stock"
                  /\ ncommit[r] = 0))

\* a dry run has succeeded after a dispatch: the stock is what the dispatch
\* left, the dispatch is the only one recorded and the draft is there
DryRunReserved ==
  \E r \in Procs :
    /\ req[r].h = "dispatchEvent"
    /\ req[r].dryRun
    /\ resp[r].status = 200
    /\ Len(db.Event[req[r].id].dispatches) = 1
    /\ Len(db.Event[req[r].id].dispatchDrafts) = 1
    /\ db.Event[req[r].id].status = "reserved"
    /\ db.Product[1].stockQty < InitStock
    /\ req[r].items[1].productId = 1

\* a dry run has been refused for a line above the stock a dispatch left
DryRunRefused ==
  \E r \in Procs :
    /\ req[r].h = "dispatchEvent"
    /\ req[r].dryRun
    /\ WellFormed(r)
    /\ AsksTooMuch(r)
    /\ resp[r].status = 400
    /\ Len(db.Event[req[r].id].dispatches) = 1
    /\ Len(db.Event[req[r].id].dispatchDrafts) = 0

\* ------------------------------------------------------------ cold leads
\* worker r has been answered on a request for an event of a cold lead
ColdRequest(r) ==
  /\ req[r].h \in {"saveAgreement", "dispatchEvent", "returnEvent"}
  /\ req[r].id \in EventIds
  /\ db.Lead[req[r].id] = "cold"
  /\ resp[r].status # 0

InvoiceLines ==
  {<<[productId |-> 1, qty |-> MaxQty]>>,
   <<[productId |-> 1, qty |-> 1], [productId |-> 2, qty |-> 1]>>,
   <<[productId |-> 1, qty |-> 1], [productId |-> 1, qty |-> MaxQty]>>}

SoldOf(items, p) == QtyOf(items, p, LAMBDA x : x.qty)

InvoicedDb(status, items) ==
  [Db0 EXCEPT
     !.Invoice[1] = [status |-> status, items |-> items, totals |-> Totals0],
     !.Product = [p \in Products |->
                    IF status = "final"
                      THEN [Product0 EXCEPT !.stockQty = InitStock - SoldOf(items, p)]
                      ELSE Product0],
     !.StockLedger =
        IF status = "draft" THEN <<>>
        ELSE [k \in 1..Len(items) |->
                InvoiceLedger(items[k].productId, 0 - items[k].qty, "invoice", "Invoice", 1)]
             \o (IF status = "final" THEN <<>>
                 ELSE [k \in 1..Len(items) |->
                         InvoiceLedger(items[k].productId, items[k].qty, "return",
                                       "Return", 1)]),
     !.IssueRegister = [p \in Products |->
                          IF status = "draft" \/ SoldOf(items, p) = 0 THEN Issue0
                          ELSE [exists |-> TRUE, qtyIssued |-> SoldOf(items, p),
                                qtyReturned |-> IF status = "returned"
                                                  THEN SoldOf(items, p) ELSE 0]]]

InitInvoiceReturn ==
  /\ revision \in {"invoices.ts", "part_003"}
  /\ \E status \in {"draft", "final", "returned"}, items \in InvoiceLines :
       db = InvoicedDb(status, items)
  /\ Idle

NextInvoiceReturn ==
  \/ \E n \in {1, 2, UnknownInvoice} : returnInvoice(1, n)
  \/ dispatchEvent(2, 1, <<[productId |-> 1, qty |-> 1, rate |-> 1000]>>, FALSE)
  \/ dispatchAttempt(2)
  \/ dispatchItem(2)
  \/ dispatchSave(2)
  \/ dispatchRead(2)
  \/ retry(2)

SpecInvoiceReturn == InitInvoiceReturn /\ [][NextInvoiceReturn]_vars

\* the step on which worker 1 is answered on a returnInvoice
InvoiceReturnServed ==
  /\ nreq' = nreq + 1
  /\ pc'[2] = pc[2]
  /\ req'[1].h = "returnInvoice"

\* C20: returnInvoice succeeds only on an invoice of status 'final': it adds
\* the qty of each item back to the stock of its product, writes one
\* 'return' ledger entry per item and sets the status to 'returned'; on a
\* draft or returned invoice it answers 400 and changes nothing
ReturnOnlyFinal ==
  [][InvoiceReturnServed =>
       LET n == req'[1].id
       IN IF n \notin InvoiceIds \/ db.Invoice[n].status = "none"
            THEN resp'[1].status = 404 /\ db' = db
          ELSE IF db.Invoice[n].status \in {"draft", "returned"}
            THEN resp'[1].status = 400 /\ db' = db
          ELSE LET items == db.Invoice[n].items
                   ledger == Appended(db.StockLedger, db'.StockLedger)
               IN \/ resp'[1].status = 500 /\ db' = db
                  \/ /\ resp'[1].status = 200
                     /\ \A p \in Products :
                          db'.Product[p].stockQty = db.Product[p].stockQty + SoldOf(items, p)
                     /\ SubSeq(db'.StockLedger, 1, Len(db.StockLedger)) = db.StockLedger
                     /\ Len(ledger) = Len(items)
                     /\ \A k \in 1..Len(items) :
                          /\ ledger[k].productId = items[k].productId
                          /\ ledger[k].qtyChange = items[k].qty
                          /\ ledger[k].reason = "return"
                     /\ db'.Invoice[n] = [db.Invoice[n] EXCEPT !.status = "returned"]
                     /\ \A m \in InvoiceIds \ {n} : db'.Invoice[m] = db.Invoice[m]
                     /\ db'.Event = db.Event
                     /\ db'.B2BStock = db.B2BStock]_vars

\* a final invoice of two lines of one product has been returned, and the
\* second return of it has been refused
InvoiceReturnedOnce ==
  /\ req[1].h = "returnInvoice"
  /\ resp[1].status = 400
  /\ nreq = MaxReq
  /\ pc[2] = "idle" /\ req[2] = NoReq
  /\ db.Invoice[1].status = "returned"
  /\ Len(db.Invoice[1].items) = MaxItems
  /\ db.Product[1].stockQty = InitStock
  /\ Len(db.StockLedger) = 2 * MaxItems

\* ------------------------------------- finalizing an invoice and undoing it
\* the inventory is the initial one and there is no invoice yet; one worker
\* creates, updates and deletes invoices
RoundTripItems == Seqs(InvoiceItem(Products, 1..InitStock), MaxItems)

InitRoundTrip ==
  /\ revision \in {"invoices.ts", "part_003"}
  /\ db = Db0
  /\ Idle

NextRoundTrip ==
  \/ \E st \in {"draft", "final"}, items \in RoundTripItems :
       createInvoice(1, [status |-> st, items |-> items, totals |-> Totals0])
  \/ \E n \in {1, UnknownInvoice}, st \in {"draft", "final"}, items \in RoundTripItems :
       updateInvoice(1, n, [status |-> st, items |-> items, totals |-> Totals0])
  \/ \E n \in {1, UnknownInvoice} : deleteInvoice(1, n)

SpecRoundTrip == InitRoundTrip /\ [][NextRoundTrip]_vars

\* the step on which the finalization of an invoice is undone: the final
\* invoice is set back to 'draft' or deleted
FinalizationUndone ==
  /\ nreq' = nreq + 1
  /\ req'[1].h \in {"updateInvoice", "deleteInvoice"}
  /\ req'[1].id \in InvoiceIds
  /\ db.Invoice[req'[1].id].status = "final"
  /\ req'[1].h = "updateInvoice" => req'[1].value.status = "draft"
  /\ resp'[1].status = 200

\* the inventory is what it was before anything was invoiced
InventoryAsBefore ==
  /\ \A p \in Products : db.Product[p].stockQty = Db0.Product[p].stockQty
  /\ \A l \in Lots : db.B2BStock[l].quantityAvailable = Db0.B2BStock[l].quantityAvailable
  /\ \A p \in Products : db.IssueRegister[p].qtyIssued = 0
  /\ \A k \in 1..Len(db.StockLedger) : db.StockLedger[k].refType # "Invoice"

\* C21: finalizing an invoice and then undoing it (final -> draft, or the
\* deletion of the final invoice) leaves every stockQty, every lot's
\* quantityAvailable, the issue register's qtyIssued and the 'Invoice'
\* ledger entries as they were before the finalization, also when part of
\* the quantity came from B2B stock
FinalizeUndoRoundTrip ==
  [][FinalizationUndone => InventoryAsBefore']_vars

\* what holds: the round trip, when the finalization took nothing from the
\* B2B lots
FinalizeUndoOnMainStock ==
  [][(FinalizationUndone /\ db.B2BStock = Db0.B2BStock) => InventoryAsBefore']_vars

\* a finalization that took from a lot has been undone: the main stock is
\* above what it was and the lot is not refilled
UndoneAboveStock ==
  /\ req[1].h \in {"updateInvoice", "deleteInvoice"}
  /\ resp[1].status = 200
  /\ nreq = MaxReq
  /\ db.Product[1].stockQty > InitStock
  /\ \E l \in Lots : db.B2BStock[l].quantityAvailable < InitLotQty

\* ------------------------------------------ the events awaiting a return
\* lines.some(li => Number(li.qtyToSend || li.qty || 0) > Number(li.returnedQty || 0))
hasOutstanding(lines) ==
  \E k \in 1..Len(lines) : lines[k].qtyToSend > lines[k].returnedQty

\* the events getReturnable lists (no event carries returnClosed)
returnableEvents ==
  {e \in EventIds : /\ ~EventMissing(e)
                    /\ hasOutstanding(targetItemsOf(db.Event[e]))}

getReturnable(r) ==
  /\ pc[r] = "idle"
  /\ nreq < MaxReq
  /\ nreq' = nreq + 1
  /\ req' = [req EXCEPT ![r] = [h |-> "getReturnable"]]
  /\ attempt' = [attempt EXCEPT ![r] = 1]
  /\ waited' = [waited EXCEPT ![r] = <<>>]
  /\ ncommit' = [ncommit EXCEPT ![r] = 0]
  /\ log' = [log EXCEPT ![r] = <<>>]
  /\ resp' = [resp EXCEPT ![r] =
                ResponseBody(200, [events |-> returnableEvents])]
  /\ UNCHANGED <<revision, db, pc, view, wset, stale, loc>>

\* event 1 as created, after an agreement (one of whose lines may have
\* quantity 0), or after a dispatch; one worker agrees, dispatches, returns
\* and asks for the returnable events
AgreedLines ==
  Seqs({SelectionLine(p, q, 1000) : p \in Products, q \in 0..1}, MaxItems)

InitReturnable ==
  /\ revision = "invoices.ts"
  /\ \E lines \in AgreedLines, dispatched \in BOOLEAN :
       /\ dispatched => \A k \in 1..Len(lines) : lines[k].qtyToSend > 0
       /\ dispatched => Len(lines) > 0
       /\ db = [Db0 EXCEPT
                  !.Event[1] =
                    IF dispatched
                      THEN [Event0 EXCEPT
                              !.dispatches =
                                <<[items |-> lines,
                                   total |-> SumSeq(MapSeq(lines, LAMBDA x : x.amount))]>>,
                              !.status = "dispatched"]
                      ELSE [Event0 EXCEPT !.selections = lines],
                  !.Product = [p \in Products |->
                                 IF dispatched
                                   THEN [Product0 EXCEPT !.stockQty =
                                           InitStock - QtyOf(lines, p, LAMBDA x : x.qtyToSend)]
                                   ELSE Product0]]
  /\ Idle

NextReturnable ==
  \/ getReturnable(1)
  \/ \E items \in Seqs({ReturnLine(p, 1, q, <<>>, 0, 0, <<>>, <<>>) :
                          p \in Products, q \in 0..1}, MaxItems) :
       returnEvent(1, 1, items)
  \/ \E n \in 0..MaxItems :
       dispatchEvent(1, 1, [k \in 1..n |-> [productId |-> 1, qty |-> 1, rate |-> 1000]],
                     FALSE)
  \/ \E q \in 0..1 :
       saveAgreement(1, 1, <<[productId |-> 2, qtyToSend |-> q, rate |-> 1000,
                              amount |-> q * 1000]>>, 0)
  \/ Step(1)

SpecReturnable == InitReturnable /\ [][NextReturnable]_vars

\* the events some line of which returnEvent holds to be uncompleted
UncompletedEvents ==
  {e \in EventIds : /\ ~EventMissing(e)
                    /\ ~allCompletedOf(targetItemsOf(db.Event[e]))}

\* C22: getReturnable and returnEvent agree on what is outstanding: the
\* events listed by getReturnable are exactly those with a line of the
\* latest dispatch (or of the selections) that returnEvent holds to be
\* uncompleted, so an event reported allCompleted is not listed and an
\* event with an uncompleted line is listed
ReturnableAgrees ==
  (req[1].h = "getReturnable" /\ resp[1].status = 200)
    => resp[1].body.events = UncompletedEvents

\* what holds: the events listed are those with an uncompleted line of
\* positive quantity, and an event that a return reports allCompleted is
\* not listed in the state the return leaves
ReturnableAgreesOnPositive ==
  (req[1].h = "getReturnable" /\ resp[1].status = 200)
    => resp[1].body.events =
         {e \in EventIds :
            /\ ~EventMissing(e)
            /\ \E k \in 1..Len(targetItemsOf(db.Event[e])) :
                 /\ ~targetItemsOf(db.Event[e])[k].completed
                 /\ targetItemsOf(db.Event[e])[k].qtyToSend > 0}

CompletedNotListed ==
  [][(/\ pc[1] = "returnSave"
      /\ pc'[1] = "returnRead"
      /\ loc'[1].summary.allCompleted)
     => req[1].id \notin returnableEvents']_vars

\* an agreed line of quantity 0 that no return has touched: returnEvent
\* holds the event uncompleted, getReturnable does not list it
UncompletedNotListed ==
  /\ req[1].h = "getReturnable"
  /\ resp[1].status = 200
  /\ 1 \in UncompletedEvents
  /\ 1 \notin resp[1].body.events

\* -------------------------------------- one request, applied at most once
\* the step on which worker r commits its transaction
Commits(r) == ncommit'[r] = ncommit[r] + 1

\* the stock of p over all products changes by d on this step
StockChange(p) == db'.Product[p].stockQty - db.Product[p].stockQty

\* C23: the effect of one dispatchEvent or returnEvent request is applied
\* at most once whatever the retries: an attempt that is retried has
\* changed nothing, no attempt is started after a commit, and the one commit
\* of a request moves each product's stock by the request's quantity once
\* and appends one dispatch or return record, also when an error is raised
\* after the commit
AppliedAtMostOnce ==
  /\ [](\A r \in Procs :
          req[r].h \in RetryHandlers =>
            /\ ncommit[r] <= 1
            /\ ncommit[r] = 1 => pc[r] \in {"dispatchRead", "returnRead", "idle"})
  /\ [][\A r \in Procs :
          /\ (pc[r] # "wait" /\ pc'[r] = "wait")
               => (db' = db /\ wset'[r] = {} /\ view'[r] = NoView /\ ncommit[r] = 0)
          /\ (req[r].h = "dispatchEvent" /\ Commits(r))
               => /\ \A p \in Products : StockChange(p) = 0 - Requested(r, p)
                  /\ Len(db'.Event[req[r].id].dispatches)
                       = Len(db.Event[req[r].id].dispatches) + 1
                  /\ db'.Event[req[r].id].returns = db.Event[req[r].id].returns
          /\ (req[r].h = "returnEvent" /\ Commits(r))
               => /\ \A p \in Products :
                       StockChange(p) = QtyOf(req[r].items, p, LAMBDA x : x.returned)
                  /\ Len(db'.Event[req[r].id].returns)
                       = Len(db.Event[req[r].id].returns) + 1
                  /\ Len(db'.Event[req[r].id].dispatches)
                       = Len(db.Event[req[r].id].dispatches)]_vars
  /\ [][db' # db => \E r \in Procs : Commits(r)]_vars

\* a request whose first attempt was retried has committed and then met an
\* error during the final read: it is answered 500 with its effect applied
\* once
ErrorAfterCommit ==
  \E r \in Procs :
    /\ req[r].h \in RetryHandlers
    /\ attempt[r] > 1
    /\ ncommit[r] = 1
    /\ pc[r] = "idle"
    /\ resp[r].status = 500
    /\ log[r][Len(log[r])].error = "other"

\* ----------------------------------- what an event's returns put back
\* the quantity of p the returns of event e added to the stock, as the
\* StockLedger records it
ReturnedToStock(e, p) ==
  SumSeq(MapSeq(SelectSeq(db.StockLedger,
                          LAMBDA x : /\ x.refType = "Return"
                                     /\ x.refId = DocEvent(e)
                                     /\ x.productId = p),
                LAMBDA x : x.qtyChange))

\* the quantity of p the dispatches of event e took from the stock
RemovedByDispatches(e, p) ==
  SumSeq(MapSeq(db.Event[e].dispatches,
                LAMBDA d : QtyOf(d.items, p, LAMBDA x : x.qtyToSend)))

\* the returnedQty of the lines of p over all dispatch records of event e
ReturnedOnLines(e, p) ==
  SumSeq(MapSeq(db.Event[e].dispatches,
                LAMBDA d : QtyOf(d.items, p, LAMBDA x : x.returnedQty)))

\* C24: after any sequence of dispatches and returns on an event, the
\* returnedQty of every dispatched line is at most its qtyToSend, and the
\* quantity of a product its returns added back to the stock is at most
\* the quantity its dispatches removed
ReturnsWithinDispatched ==
  \A e \in EventIds :
    /\ \A d \in 1..Len(db.Event[e].dispatches) :
         \A k \in 1..Len(db.Event[e].dispatches[d].items) :
           db.Event[e].dispatches[d].items[k].returnedQty
             <= db.Event[e].dispatches[d].items[k].qtyToSend
    /\ \A p \in Products : ReturnedToStock(e, p) <= RemovedByDispatches(e, p)

\* what holds: the lines never count more than the returns put back, and
\* a line is completed only if its returnedQty has reached its qtyToSend
ReturnedQtyWithinReturns ==
  \A e \in EventIds :
    /\ \A p \in Products : ReturnedOnLines(e, p) <= ReturnedToStock(e, p)
    /\ \A d \in 1..Len(db.Event[e].dispatches) :
         \A k \in 1..Len(db.Event[e].dispatches[d].items) :
           LET line == db.Event[e].dispatches[d].items[k]
           IN /\ line.returnedQty >= 0
              /\ line.completed => line.returnedQty >= line.qtyToSend

\* more of a product has come back from an event than was dispatched to it
ReturnedAboveDispatched ==
  \E e \in EventIds, p \in Products :
    /\ Len(db.Event[e].dispatches) > 0
    /\ RemovedByDispatches(e, p) > 0
    /\ ReturnedToStock(e, p) > RemovedByDispatches(e, p)
    /\ \E k \in 1..Len(db.Event[e].dispatches[1].items) :
         /\ db.Event[e].dispatches[1].items[k].productId = p
         /\ db.Event[e].dispatches[1].items[k].returnedQty
              > db.Event[e].dispatches[1].items[k].qtyToSend
    /\ db.Product[p].stockQty > InitStock

\* --------------------------------------------- the status 'returned'
\* no line of any dispatch record of the event is outstanding
NothingOutstanding(ev) ==
  \A d \in 1..Len(ev.dispatches) :
    \A k \in 1..Len(ev.dispatches[d].items) :
      ev.dispatches[d].items[k].returnedQty >= ev.dispatches[d].items[k].qtyToSend

NothingSent(ev) == Len(ev.dispatches) = 0 /\ Len(ev.selections) = 0

\* C25: whenever an event's status is 'returned', every line of every
\* record in event.dispatches has returnedQty >= qtyToSend, and a return
\* with no lines never marks 'returned' an event that has neither
\* dispatches nor selections
ReturnedMeansAllBack ==
  /\ [](\A e \in EventIds :
          db.Event[e].status = "returned" => NothingOutstanding(db.Event[e]))
  /\ [][\A r \in Procs :
          (/\ ReturnCommits(r)
           /\ Len(req[r].items) = 0
           /\ NothingSent(db.Event[req[r].id]))
          => db'.Event[req[r].id].status # "returned"]_vars

\* what holds: a return marks the event 'returned' exactly when every line
\* of the latest dispatch (of the selections, when there is no dispatch) is
\* completed, which includes the case that there is no line at all
ReturnedMeansLatestBack ==
  [][\A r \in Procs :
       ReturnCommits(r) =>
         LET before == db.Event[req[r].id]
             after == db'.Event[req[r].id]
             lines == targetItemsOf(after)
         IN /\ allCompletedOf(lines) => after.status = "returned"
            /\ ~allCompletedOf(lines) => after.status = before.status
            /\ allCompletedOf(lines) =>
                 \A k \in 1..Len(lines) : lines[k].returnedQty >= lines[k].qtyToSend]_vars

\* an event is 'returned' although an earlier dispatch of it is outstanding
EarlierDispatchOutstanding ==
  \E e \in EventIds :
    /\ db.Event[e].status = "returned"
    /\ Len(db.Event[e].dispatches) > 1
    /\ ~NothingOutstanding(db.Event[e])
    /\ allCompletedOf(targetItemsOf(db.Event[e]))

\* an event with nothing agreed or dispatched was marked 'returned' by a
\* return with no lines
ReturnedWithNothingSent ==
  \E r \in Procs :
    /\ req[r].h = "returnEvent"
    /\ Len(req[r].items) = 0
    /\ resp[r].status = 200
    /\ NothingSent(db.Event[req[r].id])
    /\ db.Event[req[r].id].status = "returned"

\* ------------------------------ one invoice, updated, returned and deleted
\* invoice 1 exists as a draft, finalized or returned; one worker updates,
\* returns and deletes it
InitRestore ==
  /\ revision \in {"invoices.ts", "part_003"}
  /\ \E status \in {"draft", "final", "returned"}, items \in InvoiceLines :
       db = InvoicedDb(status, items)
  /\ Idle

NextRestore ==
  \/ \E n \in {1, UnknownInvoice}, st \in {"draft", "final", "returned"},
        items \in InvoiceLines :
       updateInvoice(1, n, [status |-> st, items |-> items, totals |-> Totals0])
  \/ \E n \in {1, UnknownInvoice} : returnInvoice(1, n)
  \/ \E n \in {1, UnknownInvoice} : deleteInvoice(1, n)

SpecRestore == InitRestore /\ [][NextRestore]_vars

\* C26: the stock removed by one finalization of an invoice is restored at
\* most once: over any sequence of updates, returns and deletions of the
\* invoice, what has been added back to a product never exceeds what was
\* deducted for the invoice, so that no product's stock rises above the
\* stock it had before the invoice
RestoredAtMostOnce ==
  \A p \in Products : db.Product[p].stockQty <= InitStock

\* the request served on this step, on invoice 1
InvoiceServed(h) ==
  /\ nreq' = nreq + 1
  /\ req'[1].h = h
  /\ req'[1].id = 1
  /\ resp'[1].status = 200

\* what holds: a return, a deletion or a reversal to 'draft' of a final
\* invoice adds back the quantities of the items stored at that moment,
\* a finalization of a draft deducts the quantities of the new items, and
\* every other update leaves the stock alone whatever it stores
RestoresStoredItems ==
  [][\A p \in Products :
       LET was == db.Invoice[1]
           change == db'.Product[p].stockQty - db.Product[p].stockQty
       IN /\ (InvoiceServed("returnInvoice") \/ InvoiceServed("deleteInvoice"))
               => change = IF was.status = "final" THEN SoldOf(was.items, p) ELSE 0
          /\ InvoiceServed("updateInvoice")
               => change =
                    IF was.status = "final" /\ req'[1].value.status = "draft"
                      THEN SoldOf(was.items, p)
                    ELSE IF was.status = "draft" /\ req'[1].value.status = "final"
                      THEN 0 - SoldOf(req'[1].value.items, p)
                    ELSE 0]_vars

\* a returned invoice was set back to 'final' and returned again: its
\* quantity has been added back twice
RestoredTwice ==
  /\ req[1].h = "returnInvoice"
  /\ resp[1].status = 200
  /\ nreq = MaxReq
  /\ db.Invoice[1].status = "returned"
  /\ \E p \in Products :
       /\ db.Product[p].stockQty = InitStock + SoldOf(db.Invoice[1].items, p)
       /\ db.IssueRegister[p].qtyReturned > db.IssueRegister[p].qtyIssued

\* the items of a final invoice were edited and the invoice then deleted:
\* more has been added back than was deducted
RestoredEditedItems ==
  /\ req[1].h = "deleteInvoice"
  /\ resp[1].status = 200
  /\ nreq = MaxReq
  /\ \A p \in Products : db.IssueRegister[p].qtyReturned = 0
  /\ \E p \in Products : db.Product[p].stockQty > InitStock

====
